---- MODULE Spec2Model ----
(***************************************************************************)
(* A model of scripts/fetch_i79_incidents.py: the I-79 incident dataset    *)
(* builder (date parsers, relevance / location / fatality heuristics, the  *)
(* WV511 block parser, the source adapters, the override engine and        *)
(* build_dataset).                                                         *)
(*                                                                         *)
(* Strings are sequences of atoms.  An atom is an indivisible chunk of     *)
(* characters ("marion", " ", "i-79", "|"); concatenation of strings is    *)
(* \o, so f"{a} {b}" is a \o <<" ">> \o b.  JSON values read from          *)
(* manual_overrides.json are tagged records (see JNull .. JStr).  A record *)
(* lists its fields in the order TLC keeps them in, the same throughout    *)
(* the module, which is not always the order of the source.                *)
(***************************************************************************)
EXTENDS Integers, Sequences, FiniteSets, TLC

\* ------------------------------------------------------------------ strings

SP == " "

\* str.lower() on one atom; atoms without an entry have no upper-case letter.
LowerAtom(a) ==
    CASE a = "I-79" -> "i-79"
      [] a = "Marion" -> "marion"
      [] a = "County" -> "county"
      [] a = "Harrison" -> "harrison"
      [] a = "Monongalia" -> "monongalia"
      [] a = "Ohio" -> "ohio"
      [] a = "Fairmont" -> "fairmont"
      [] a = "Crash" -> "crash"
      [] a = "True" -> "true"
      [] a = "False" -> "false"
      [] a = "None" -> "none"
      [] a = "Yes" -> "yes"
      [] OTHER -> a

Lower(s) == [i \in 1..Len(s) |-> LowerAtom(s[i])]

\* str.title() on one atom of a LOCATION_HINTS key.
TitleAtom(a) ==
    CASE a = "marion" -> "Marion"
      [] a = "county" -> "County"
      [] a = "harrison" -> "Harrison"
      [] a = "monongalia" -> "Monongalia"
      [] a = "fairmont" -> "Fairmont"
      [] a = "morgantown" -> "Morgantown"
      [] a = "star" -> "Star"
      [] a = "city" -> "City"
      [] a = "white" -> "White"
      [] a = "hall" -> "Hall"
      [] a = "bridgeport" -> "Bridgeport"
      [] a = "clarksburg" -> "Clarksburg"
      [] a = "weston" -> "Weston"
      [] a = "stonewood" -> "Stonewood"
      [] a = "lost" -> "Lost"
      [] a = "creek" -> "Creek"
      [] OTHER -> a

Title(s) == [i \in 1..Len(s) |-> TitleAtom(s[i])]

\* Atoms made of white space only.
IsSpace(a) == a = SP

RECURSIVE LStrip(_)
LStrip(s) == IF s # <<>> /\ IsSpace(Head(s)) THEN LStrip(Tail(s)) ELSE s

RECURSIVE RStrip(_)
RStrip(s) ==
    IF s # <<>> /\ IsSpace(s[Len(s)]) THEN RStrip(SubSeq(s, 1, Len(s) - 1)) ELSE s

\* str.strip()
Strip(s) == RStrip(LStrip(s))

\* Words that occur inside an atom as a proper part: the atom "fatalities"
\* contains "fatal"; the atom "deadline" contains "dead".
PartsOf(a) ==
    CASE a = "fatalities" -> {"fatal", "fatalit"}
      [] a = "fatality" -> {"fatal", "fatalit"}
      [] a = "fatal" -> {"fatal"}
      [] a = "deadline" -> {"dead"}
      [] a = "county" -> {"co"}
      [] a = "countywide" -> {"county", "co"}
      [] a = "westonia" -> {"weston"}
      [] a = "crashes" -> {"crash"}
      [] a = "accidents" -> {"accident"}
      [] a = "victims" -> {"victim"}
      [] OTHER -> {}

\* The listed parts are all prefixes of their atom.
PrefixesOf(a) == PartsOf(a) \cup {a}

SuffixesOf(a) == {a}

\* `phrase in s` for a phrase of whole atoms: it may start inside the atom
\* s[i] (as a suffix of it) and end inside s[i+n-1] (as a prefix of it).
MatchesAt(s, phrase, i) ==
    LET n == Len(phrase) IN
    /\ i >= 1
    /\ i + n - 1 <= Len(s)
    /\ IF n = 1
         THEN phrase[1] \in PrefixesOf(s[i]) \cup SuffixesOf(s[i])
         ELSE /\ phrase[1] \in SuffixesOf(s[i])
              /\ phrase[n] \in PrefixesOf(s[i + n - 1])
              /\ \A k \in 2..(n - 1) : s[i + k - 1] = phrase[k]

Contains(s, phrase) ==
    phrase = <<>> \/ \E i \in 1..Len(s) : MatchesAt(s, phrase, i)

\* Atoms that consist of non-word characters: a regex \b sits next to them.
IsNonWord(a) == a \in {SP, "|", ".", ",", "#", ":"}

\* re.search(rf"\b{phrase}\b", s): the start index of the leftmost match, or
\* 0.  The phrase starts and ends with a word character, so the match needs
\* whole atoms with a non-word atom (or the string's end) on both sides.
WordMatchAt(s, phrase, i) ==
    LET n == Len(phrase) IN
    /\ i >= 1
    /\ i + n - 1 <= Len(s)
    /\ \A k \in 1..n : s[i + k - 1] = phrase[k]
    /\ (i = 1 \/ IsNonWord(s[i - 1]))
    /\ (i + n - 1 = Len(s) \/ IsNonWord(s[i + n]))

WordSearch(s, phrase) ==
    LET hits == {i \in 1..Len(s) : WordMatchAt(s, phrase, i)} IN
    IF hits = {} THEN 0 ELSE CHOOSE i \in hits : \A j \in hits : i <= j

\* f"{a} {b}"
Join2(a, b) == a \o <<SP>> \o b

\* -------------------------------------------------------------------- dates
\* A date string is made of a day atom, an hour atom, a ":MM:SS" atom and a
\* zone atom.  A parsed datetime is [ord, hour, mins, aware, off]: the day's
\* proleptic ordinal, the hour, the ":MM:SS" atom, and the UTC offset in
\* hours when aware.

HourAtoms ==
    <<"00", "01", "02", "03", "04", "05", "06", "07", "08", "09", "10", "11",
      "12", "13", "14", "15", "16", "17", "18", "19", "20", "21", "22", "23">>

\* The hour an atom names, or -1.
HourOf(a) ==
    IF \E h \in 1..24 : HourAtoms[h] = a
      THEN (CHOOSE h \in 1..24 : HourAtoms[h] = a) - 1
      ELSE -1

\* The ":MM:SS" part of a time.
MinAtoms == {":00:00", ":30:00"}

\* date.fromisoformat's YYYY-MM-DD part: the ordinal, or 0 when the atom is
\* no such date.
IsoDayOrd(a) ==
    CASE a = "0001-01-01" -> 1
      [] a = "0001-01-02" -> 2
      [] a = "2019-06-14" -> 737224
      [] a = "2019-06-15" -> 737225
      [] a = "2019-06-16" -> 737226
      [] a = "2025-06-14" -> 739416
      [] a = "2025-06-15" -> 739417
      [] a = "2025-06-16" -> 739418
      [] OTHER -> 0

IsoDayAtoms ==
    {"0001-01-01", "0001-01-02", "2019-06-14", "2019-06-15", "2019-06-16",
     "2025-06-14", "2025-06-15", "2025-06-16"}

\* date.isoformat()
OrdIso(ord) == CHOOSE a \in IsoDayAtoms : IsoDayOrd(a) = ord

\* The day part of an RFC 2822 date ("Sun, 15 Jun 2025").
RfcDayOrd(a) ==
    CASE a = "Sat, 15 Jun 2019" -> 737225
      [] a = "Sun, 15 Jun 2025" -> 739417
      [] OTHER -> 0

\* strptime's %m/%d/%Y
UsDayOrd(a) ==
    CASE a = "01/01/0001" -> 1
      [] a = "06/15/2019" -> 737225
      [] a = "06/15/2025" -> 739417
      [] OTHER -> 0

\* A UTC offset written +HH:MM (ISO 8601), in hours; 99 when the atom is none.
IsoZoneOff(a) ==
    CASE a = "+00:00" -> 0
      [] a = "-04:00" -> -4
      [] a = "+05:00" -> 5
      [] OTHER -> 99

\* A UTC offset written +HHMM (RFC 2822).
RfcZoneOff(a) ==
    CASE a = "+0000" -> 0
      [] a = "-0400" -> -4
      [] a = "+0500" -> 5
      [] OTHER -> 99

NoDate ==
    [ord |-> 0, ok |-> FALSE, hour |-> 0, mins |-> ":00:00", aware |-> FALSE, off |-> 0]

Naive(ord, hour, mins) ==
    [ord |-> ord, ok |-> TRUE, hour |-> hour, mins |-> mins, aware |-> FALSE, off |-> 0]

Aware(ord, hour, mins, off) ==
    [ord |-> ord, ok |-> TRUE, hour |-> hour, mins |-> mins, aware |-> TRUE, off |-> off]

\* str.replace("Z", "+00:00")
ReplaceZ(s) == [i \in 1..Len(s) |-> IF s[i] = "Z" THEN "+00:00" ELSE s[i]]

\* datetime.fromisoformat: NoDate stands for its ValueError.  A date alone is
\* midnight; the separator is any one character.
FromIsoFormat(s) ==
    LET n == Len(s) IN
    IF n >= 1 /\ IsoDayOrd(s[1]) > 0
      THEN IF n = 1 THEN Naive(IsoDayOrd(s[1]), 0, ":00:00")
           ELSE IF n \in {4, 5} /\ s[2] \in {"T", SP} /\ HourOf(s[3]) >= 0 /\ s[4] \in MinAtoms
             THEN IF n = 4 THEN Naive(IsoDayOrd(s[1]), HourOf(s[3]), s[4])
                  ELSE IF IsoZoneOff(s[5]) # 99
                    THEN Aware(IsoDayOrd(s[1]), HourOf(s[3]), s[4], IsoZoneOff(s[5]))
                    ELSE NoDate
             ELSE NoDate
      ELSE NoDate

\* email.utils.parsedate_to_datetime: NoDate stands for its ValueError (it
\* never returns None).  White space around the date is ignored.
ParsedateToDatetime(raw) ==
    LET s == Strip(raw)
        n == Len(s)
    IN
    IF n \in {4, 6} /\ RfcDayOrd(s[1]) > 0 /\ s[2] = SP /\ HourOf(s[3]) >= 0 /\ s[4] \in MinAtoms
      THEN IF n = 4 THEN Naive(RfcDayOrd(s[1]), HourOf(s[3]), s[4])
           ELSE IF s[5] = SP /\ RfcZoneOff(s[6]) # 99
             THEN Aware(RfcDayOrd(s[1]), HourOf(s[3]), s[4], RfcZoneOff(s[6]))
             ELSE NoDate
      ELSE NoDate

\* datetime.strptime(s, "%m/%d/%Y %I:%M:%S %p"): %I is 01..12.
Strptime(s) ==
    IF /\ Len(s) = 6
       /\ UsDayOrd(s[1]) > 0
       /\ s[2] = SP
       /\ HourOf(s[3]) \in 1..12
       /\ s[4] \in MinAtoms
       /\ s[5] = SP
       /\ s[6] \in {"AM", "PM"}
      THEN Naive(UsDayOrd(s[1]),
                 (HourOf(s[3]) % 12) + (IF s[6] = "PM" THEN 12 ELSE 0), s[4])
      ELSE NoDate

\* A parser's outcome: the string it returns, or the exception it raises.
Returned(v) == [exc |-> "", val |-> v]

Raised(e) == [exc |-> e, val |-> <<>>]

\* parsed.astimezone(utc).isoformat() for an aware datetime (a naive one has
\* had tzinfo=utc put on it): OverflowError when the UTC day is before year 1.
UtcIso(p) ==
    LET off == IF p.aware THEN p.off ELSE 0
        h == p.hour - off + 24
        ord == p.ord + (h \div 24) - 1
    IN
    IF ord < 1 THEN Raised("OverflowError")
    ELSE Returned(<<OrdIso(ord), "T", HourAtoms[(h % 24) + 1], p.mins, "+00:00">>)

parse_date(raw) ==
    IF raw = <<>> THEN Returned(<<>>)
    ELSE LET parsed == ParsedateToDatetime(raw) IN
         IF ~parsed.ok THEN Raised("ValueError") ELSE UtcIso(parsed)

parse_wp_date(raw) ==
    IF raw = <<>> THEN Returned(<<>>)
    ELSE LET parsed == FromIsoFormat(ReplaceZ(raw)) IN
         IF ~parsed.ok THEN Returned(<<>>) ELSE UtcIso(parsed)

parse_iso_date(raw) ==
    IF raw = <<>> THEN Returned(<<>>)
    ELSE LET parsed == FromIsoFormat(ReplaceZ(Strip(raw))) IN
         IF ~parsed.ok THEN Returned(<<>>) ELSE UtcIso(parsed)

parse_wv511_date(raw) ==
    LET parsed == Strptime(Strip(raw)) IN
    IF ~parsed.ok THEN Returned(<<>>)
    ELSE Returned(<<OrdIso(parsed.ord), "T", HourAtoms[parsed.hour + 1], parsed.mins, "+00:00">>)

\* -------------------------------------------------------------- JSON values
\* A value of manual_overrides.json: k is its type, n its number (a float in
\* units of 1/10000, a bool as 0 or 1), s its string.

JNull == [s |-> <<>>, n |-> 0, k |-> "null"]

JInt(n) == [s |-> <<>>, n |-> n, k |-> "int"]

JFloat(n) == [s |-> <<>>, n |-> n, k |-> "float"]

JBool(b) == [s |-> <<>>, n |-> IF b THEN 1 ELSE 0, k |-> "bool"]

JStr(s) == [s |-> s, n |-> 0, k |-> "str"]

\* A JSON array or object used where a scalar is expected.
JObj == [s |-> <<>>, n |-> 0, k |-> "object"]

\* The decimal atoms of the model and their values.
IntAtoms == {"-1", "0", "1", "2", "3", "4", "5", "6", "7", "8", "9", "10", "15", "79"}

AtomInt(a) ==
    CASE a = "-1" -> -1
      [] a = "0" -> 0
      [] a = "1" -> 1
      [] a = "2" -> 2
      [] a = "3" -> 3
      [] a = "4" -> 4
      [] a = "5" -> 5
      [] a = "6" -> 6
      [] a = "7" -> 7
      [] a = "8" -> 8
      [] a = "9" -> 9
      [] a = "10" -> 10
      [] a = "15" -> 15
      [] a = "79" -> 79

\* str(n) for an int
IntStr(n) == <<CHOOSE a \in IntAtoms : AtomInt(a) = n>>

\* str(x) for a float in units of 1/10000
FloatStr(n) ==
    CASE n = 25000 -> <<"2.5">>
      [] n = 395000 -> <<"39.5">>
      [] n = -801000 -> <<"-80.1">>

\* Python's int(v): a float is truncated toward zero, a string is stripped
\* and read as a signed decimal, None and containers are a TypeError.
PyInt(v) ==
    CASE v.k \in {"int", "bool"} -> [exc |-> "", val |-> v.n]
      [] v.k = "float" ->
           [exc |-> "", val |-> IF v.n >= 0 THEN v.n \div 10000 ELSE -((-v.n) \div 10000)]
      [] v.k = "str" ->
           IF Len(Strip(v.s)) = 1 /\ Strip(v.s)[1] \in IntAtoms
             THEN [exc |-> "", val |-> AtomInt(Strip(v.s)[1])]
             ELSE [exc |-> "ValueError", val |-> 0]
      [] OTHER -> [exc |-> "TypeError", val |-> 0]

\* Python's str(v)
PyStr(v) ==
    CASE v.k = "str" -> v.s
      [] v.k = "int" -> IntStr(v.n)
      [] v.k = "float" -> FloatStr(v.n)
      [] v.k = "bool" -> IF v.n = 1 THEN <<"True">> ELSE <<"False">>
      [] v.k = "null" -> <<"None">>
      [] OTHER -> <<"{}">>

\* Python's bool(v): zero, the empty string and None are false.  (The
\* containers of the model are empty.)
PyBool(v) ==
    CASE v.k \in {"int", "float", "bool"} -> v.n # 0
      [] v.k = "str" -> v.s # <<>>
      [] OTHER -> FALSE

\* isinstance(v, int): bool is a subclass of int.
IsInt(v) == v.k \in {"int", "bool"}

\* dict.get(key, default) on a JSON object modelled as a function.
Get(d, key, default) == IF key \in DOMAIN d THEN d[key] ELSE default

\* ---------------------------------------------------------- configuration

NON_EVENT_TITLE_TERMS ==
    { <<"discusses", SP, "what", SP, "might", SP, "cause">>,
      <<"what", SP, "might", SP, "cause", SP, "accidents">>,
      <<"safety", SP, "tips">>,
      <<"how", SP, "to", SP, "avoid">>,
      <<"why", SP, "crashes", SP, "happen">> }

WDTV_URL_HINT_TERMS == { <<"i-79">>, <<"interstate-79">> }

NORTH_CENTRAL_COUNTIES ==
    { <<"monongalia", SP, "county">>, <<"marion", SP, "county">>,
      <<"harrison", SP, "county">> }

INCIDENT_TERMS ==
    { <<"accident">>, <<"crash">>, <<"wreck">>, <<"collision">>,
      <<"vehicle", SP, "fire">>, <<"rolled", SP, "over">>, <<"rollover">>,
      <<"tractor", SP, "trailer">>, <<"traffic", SP, "backup">> }

SPELLED_NUMBERS ==
    [w \in {"one", "two", "three", "four", "five", "six"} |->
        CASE w = "one" -> 1 [] w = "two" -> 2 [] w = "three" -> 3
          [] w = "four" -> 4 [] w = "five" -> 5 [] w = "six" -> 6]

CONSTRUCTION_TERMS ==
    { <<"construction">>, <<"work", SP, "zone">>, <<"bridge", SP, "work">>,
      <<"bridge", SP, "deck", SP, "repairs">>, <<"paving">>,
      <<"lane", SP, "closure">>, <<"detour">>, <<"road", SP, "work">>,
      <<"maintenance">> }

\* The table in declaration order; coordinates in units of 1/10000 degree.
LOCATION_HINTS ==
    << [place |-> <<"morgantown">>, lat |-> 396295, lon |-> -799559],
       [place |-> <<"star", SP, "city">>, lat |-> 396579, lon |-> -799862],
       [place |-> <<"fairmont">>, lat |-> 394851, lon |-> -801426],
       [place |-> <<"white", SP, "hall">>, lat |-> 394443, lon |-> -801723],
       [place |-> <<"bridgeport">>, lat |-> 392865, lon |-> -802562],
       [place |-> <<"clarksburg">>, lat |-> 392806, lon |-> -803445],
       [place |-> <<"weston">>, lat |-> 390384, lon |-> -804673],
       [place |-> <<"stonewood">>, lat |-> 392462, lon |-> -803009],
       [place |-> <<"lost", SP, "creek">>, lat |-> 391615, lon |-> -803731],
       [place |-> <<"monongalia", SP, "county">>, lat |-> 396525, lon |-> -800041],
       [place |-> <<"marion", SP, "county">>, lat |-> 394568, lon |-> -801542],
       [place |-> <<"harrison", SP, "county">>, lat |-> 393032, lon |-> -803781] >>

WV511_DELAY_URL == <<"https://www.wv511.org/TravelConditions/TravelDelay.aspx">>

\* -------------------------------------------------------------- heuristics

\* A classifier that asks for incident vocabulary only.  Not what the code
\* does; RelevantIffCorridorAndTerm must tell the two apart.
likely_relevant_any_term(text) ==
    \E term \in INCIDENT_TERMS : Contains(Lower(text), term)

likely_relevant(text) ==
    LET lowered == Lower(text)
        mentions_i79 ==
            \/ Contains(lowered, <<"i-79">>)
            \/ Contains(lowered, <<"interstate", SP, "79">>)
            \/ Contains(lowered, <<"i", SP, "79">>)
        mentions_incident == \E term \in INCIDENT_TERMS : Contains(lowered, term)
    IN mentions_i79 /\ mentions_incident

\* The decimal digits an atom ends with (the group (\d+) when the match
\* continues after the atom), or -1: "i-79" ends with 79.
NumSuffix(a) ==
    CASE a \in IntAtoms \ {"-1"} -> AtomInt(a)
      [] a = "-1" -> 1
      [] a \in {"i-79", "interstate-79"} -> 79
      [] OTHER -> -1

\* The decimal digits an atom starts with, or -1.
NumPrefix(a) == IF a \in IntAtoms \ {"-1"} THEN AtomInt(a) ELSE -1

\* The index after the white space \s+ that starts at i, or 0 when there is
\* none there.
RECURSIVE AfterSpaces(_, _)
AfterSpaces(s, i) ==
    IF i > Len(s) \/ ~IsSpace(s[i]) THEN 0
    ELSE IF i + 1 <= Len(s) /\ IsSpace(s[i + 1]) THEN AfterSpaces(s, i + 1)
    ELSE i + 1

\* s[i] when i is an index of s, and an atom that matches nothing otherwise.
At(s, i) == IF i \in 1..Len(s) THEN s[i] ELSE ""

StartsWith(a, w) == w \in PrefixesOf(a)

\* (\d+)\s+(?:people|person|victims?)\s+(?:were\s+)?killed  matching at i
KilledCountAt(s, i) ==
    LET j == AfterSpaces(s, i + 1)
        k == AfterSpaces(s, j + 1)
        l == AfterSpaces(s, k + 1)
    IN
    /\ NumSuffix(s[i]) >= 0
    /\ j > 0
    /\ At(s, j) \in {"people", "person", "victim", "victims"}
    /\ k > 0
    /\ \/ StartsWith(At(s, k), "killed")
       \/ At(s, k) = "were" /\ l > 0 /\ StartsWith(At(s, l), "killed")

\* (\d+)\s+dead  and  (\d+)\s+fatalit  matching at i
CountThenAt(s, i, word) ==
    /\ NumSuffix(s[i]) >= 0
    /\ AfterSpaces(s, i + 1) > 0
    /\ StartsWith(At(s, AfterSpaces(s, i + 1)), word)

\* killed\s+(\d+)  matching at i
KilledThenAt(s, i) ==
    /\ s[i] = "killed"
    /\ AfterSpaces(s, i + 1) > 0
    /\ NumPrefix(At(s, AfterSpaces(s, i + 1))) >= 0

Leftmost(hits) == IF hits = {} THEN 0 ELSE CHOOSE i \in hits : \A j \in hits : i <= j

\* re.search of each numeric pattern: [pos, value] of the leftmost match,
\* pos 0 when the pattern does not match.
NumericMatch(s, p) ==
    LET idx == 1..Len(s)
        pos == CASE p = 1 -> Leftmost({i \in idx : KilledCountAt(s, i)})
                 [] p = 2 -> Leftmost({i \in idx : CountThenAt(s, i, "dead")})
                 [] p = 3 -> Leftmost({i \in idx : KilledThenAt(s, i)})
                 [] p = 4 -> Leftmost({i \in idx : CountThenAt(s, i, "fatalit")})
    IN
    [pos |-> pos,
     value |-> IF pos = 0 THEN 0
               ELSE IF p = 3 THEN NumPrefix(s[AfterSpaces(s, pos + 1)])
               ELSE NumSuffix(s[pos])]

\* \b(one|...|six)\s+dead\b  matching at i
WordDeadAt(s, i) ==
    LET j == AfterSpaces(s, i + 1) IN
    /\ s[i] \in DOMAIN SPELLED_NUMBERS
    /\ (i = 1 \/ IsNonWord(s[i - 1]))
    /\ j > 0
    /\ At(s, j) = "dead"
    /\ (j = Len(s) \/ IsNonWord(At(s, j + 1)))

\* \b(one|...|six)\s+(?:person|people)\s+(?:was|were)\s+killed\b  at i
WordKilledAt(s, i) ==
    LET j == AfterSpaces(s, i + 1)
        k == AfterSpaces(s, j + 1)
        l == AfterSpaces(s, k + 1)
    IN
    /\ s[i] \in DOMAIN SPELLED_NUMBERS
    /\ (i = 1 \/ IsNonWord(s[i - 1]))
    /\ j > 0 /\ At(s, j) \in {"person", "people"}
    /\ k > 0 /\ At(s, k) \in {"was", "were"}
    /\ l > 0 /\ At(s, l) = "killed"
    /\ (l = Len(s) \/ IsNonWord(At(s, l + 1)))

fatal_clues ==
    { <<"fatal">>, <<"killed">>, <<"died">>, <<"dead">>,
      <<"medical", SP, "examiner", SP, "called">>, <<"pronounced", SP, "dead">>,
      <<"dead", SP, "at", SP, "the", SP, "scene">>, <<"dead", SP, "at", SP, "scene">> }

\* A loop over the numeric patterns that returns the count of the first
\* matching pattern whatever its size.  Not what the code does;
\* FatalitiesInRange must tell the two apart.
RECURSIVE NumericFirst(_, _)
NumericFirst(s, p) ==
    IF p > 4 THEN 0
    ELSE IF NumericMatch(s, p).pos > 0 THEN NumericMatch(s, p).value
    ELSE NumericFirst(s, p + 1)

\* The for loop over the numeric patterns from pattern p on: the first
\* matching pattern whose count is in 1..10 returns; 0 when none does.
RECURSIVE NumericFrom(_, _)
NumericFrom(s, p) ==
    IF p > 4 THEN 0
    ELSE LET m == NumericMatch(s, p) IN
         IF m.pos > 0 /\ 0 < m.value /\ m.value <= 10 THEN m.value
         ELSE NumericFrom(s, p + 1)

extract_fatalities(text) ==
    LET lowered == Lower(text)
        idx == 1..Len(lowered)
        dead == Leftmost({i \in idx : WordDeadAt(lowered, i)})
        killed == Leftmost({i \in idx : WordKilledAt(lowered, i)})
    IN
    IF ~\E clue \in fatal_clues : Contains(lowered, clue) THEN 0
    ELSE IF NumericFrom(lowered, 1) > 0 THEN NumericFrom(lowered, 1)
    ELSE IF dead > 0 THEN SPELLED_NUMBERS[lowered[dead]]
    ELSE IF killed > 0 THEN SPELLED_NUMBERS[lowered[killed]]
    ELSE 1

\* The first LOCATION_HINTS entry at or after k whose place is in the text,
\* or 0.
RECURSIVE FirstHint(_, _)
FirstHint(lowered, k) ==
    IF k > Len(LOCATION_HINTS) THEN 0
    ELSE IF Contains(lowered, LOCATION_HINTS[k].place) THEN k
    ELSE FirstHint(lowered, k + 1)

HintOf(place) == CHOOSE k \in 1..Len(LOCATION_HINTS) : LOCATION_HINTS[k].place = place

\* A resolver that walks LOCATION_HINTS in table order only, without the
\* county pass.  Not what the code does; LocationPrefersCounty must tell the
\* two apart.
infer_location_table_order(text) ==
    IF FirstHint(Lower(text), 1) > 0
      THEN [lat |-> JFloat(LOCATION_HINTS[FirstHint(Lower(text), 1)].lat),
            lon |-> JFloat(LOCATION_HINTS[FirstHint(Lower(text), 1)].lon),
            location_text |-> Title(LOCATION_HINTS[FirstHint(Lower(text), 1)].place)]
    ELSE [lat |-> JNull, lon |-> JNull, location_text |-> <<"Unspecified", SP, "stretch">>]

\* Returns [location_text, lat, lon]; lat and lon are JSON values.
infer_location(text) ==
    LET lowered == Lower(text)
        counties == << <<"monongalia", SP, "county">>, <<"marion", SP, "county">>,
                       <<"harrison", SP, "county">> >>
        county_matches == {c \in 1..3 : WordSearch(lowered, counties[c]) > 0}
        best == counties[CHOOSE c \in county_matches :
                    \A d \in county_matches :
                        WordSearch(lowered, counties[c]) <= WordSearch(lowered, counties[d])]
        k == FirstHint(lowered, 1)
    IN
    IF county_matches # {}
      THEN [lat |-> JFloat(LOCATION_HINTS[HintOf(best)].lat),
            lon |-> JFloat(LOCATION_HINTS[HintOf(best)].lon),
            location_text |-> Title(best)]
    ELSE IF k > 0
      THEN [lat |-> JFloat(LOCATION_HINTS[k].lat),
            lon |-> JFloat(LOCATION_HINTS[k].lon),
            location_text |-> Title(LOCATION_HINTS[k].place)]
    ELSE [lat |-> JNull, lon |-> JNull, location_text |-> <<"Unspecified", SP, "stretch">>]

\* An id made of the url alone.  Not what the code does; IdFollowsArguments
\* must tell the two apart.
incident_id_of_url(url, title) == url

\* The seed f"{url}|{title}" whose SHA-1 digest (cut to 12 hex digits) is the
\* id.  The digest is taken to be one-to-one on the seeds of the model, so an
\* id is written as its seed.
incident_id(url, title) == url \o <<"|">> \o title

text_to_bool(value) ==
    Lower(Strip(value)) \in { <<"1">>, <<"true">>, <<"yes">>, <<"y">> }

is_north_central_context(text) ==
    LET lowered == Lower(text)
        county_hit == \E county \in NORTH_CENTRAL_COUNTIES : Contains(lowered, county)
        county_alias_hit ==
            \E alias \in { <<"mon", SP, "county">>, <<"marion", SP, "co">>,
                           <<"harrison", SP, "co">> } : Contains(lowered, alias)
        city_hit ==
            \E city \in { <<"morgantown">>, <<"fairmont">>, <<"bridgeport">>,
                          <<"clarksburg">>, <<"white", SP, "hall">>, <<"weston">> } :
                Contains(lowered, city)
    IN county_hit \/ county_alias_hit \/ city_hit

construction_related_of(blob) ==
    \E term \in CONSTRUCTION_TERMS : Contains(Lower(blob), term)

\* ---------------------------------------------------------------- incident

\* The Incident dataclass.  lat, lon and verified_fatalities hold JSON
\* values (None is JNull); the strings are atom sequences.
Incident(id, title, url, source, published_at, summary, location_text, lat, lon, construction_related, suspected_fatalities, source_type, verification_status, verified_fatalities, notes) ==
    [lat |-> lat, lon |-> lon, location_text |-> location_text, url |-> url,
     title |-> title, id |-> id,
     source |-> source, published_at |-> published_at, summary |-> summary,
     construction_related |-> construction_related,
     suspected_fatalities |-> suspected_fatalities, source_type |-> source_type,
     verification_status |-> verification_status,
     verified_fatalities |-> verified_fatalities, notes |-> notes]

\* ------------------------------------------------------------ WV511 parser

\* The strings an atom starts with, for str.startswith on a line.
HeadPrefixes(a) ==
    CASE a = "I-79" -> {"I-", "I-79"}
      [] a = "I-790" -> {"I-", "I-79", "I-790"}
      [] a = "I-77" -> {"I-", "I-77"}
      [] OTHER -> {a}

LineStartsWith(line, prefix) == line # <<>> /\ prefix \in HeadPrefixes(line[1])

\* line.replace("I-79", "", 1) for a line that starts with "I-79"
DropMarker(line) ==
    IF line[1] = "I-790" THEN <<"0">> \o Tail(line) ELSE Tail(line)

\* probe.split(":", 1)[1].strip() for a line whose first atom ends with the
\* line's first colon
AfterColon(probe) == Strip(Tail(probe))

\* The inner while loop from j on: the index of the first line that starts
\* with "I-" (the corridor's or another route's), or len(lines) + 1.
RECURSIVE BlockEnd(_, _)
BlockEnd(lines, j) ==
    IF j > Len(lines) THEN j
    ELSE IF /\ ~LineStartsWith(lines[j], "Last Updated:")
            /\ ~LineStartsWith(lines[j], "County:")
            /\ ~LineStartsWith(lines[j], "Description:")
            /\ ~LineStartsWith(lines[j], "Comments:")
            /\ LineStartsWith(lines[j], "I-")
      THEN j
    ELSE BlockEnd(lines, j + 1)

\* The value the inner loop leaves in a field: that of the last line with the
\* label among lines[i+1 .. j-1], or "".
FieldOf(lines, i, j, label) ==
    LET hits == {k \in (i + 1)..(j - 1) : LineStartsWith(lines[k], label)} IN
    IF hits = {} THEN <<>>
    ELSE AfterColon(lines[CHOOSE k \in hits : \A m \in hits : m <= k])

\* The block whose header is lines[i]: its fields, and the incident it
\* yields (emit is FALSE when the block is discarded).
Wv511Block(lines, i) ==
    LET j == BlockEnd(lines, i + 1)
        stripped == Strip(DropMarker(lines[i]))
        event_title == IF stripped = <<>> THEN <<"Traffic", SP, "Event">> ELSE stripped
        last_updated == FieldOf(lines, i, j, "Last Updated:")
        county == FieldOf(lines, i, j, "County:")
        description == FieldOf(lines, i, j, "Description:")
        notes == FieldOf(lines, i, j, "Comments:")
        blob == Strip(<<"I-79", SP>> \o event_title \o <<SP>> \o description
                      \o <<SP>> \o notes)
        loc == infer_location(Join2(county, blob))
        title == Strip(<<"I-79", SP>> \o event_title)
        \* the SHA-1 digest of blob, written as blob
        pseudo_url == WV511_DELAY_URL \o <<"#i79-">> \o blob
    IN
    [county |-> county,
     description |-> description,
     next |-> IF i + 1 >= j THEN i + 1 ELSE j,
     end |-> j,
     emit |-> /\ Lower(county) \in NORTH_CENTRAL_COUNTIES
              /\ ~(description # <<>> /\ ~Contains(Lower(description), <<"i-79">>)),
     incident |-> Incident(incident_id(pseudo_url, title), title, WV511_DELAY_URL,
                 <<"wv511.org">>, parse_wv511_date(last_updated).val, description,
                 IF county # <<>> THEN county ELSE loc.location_text,
                 loc.lat, loc.lon, construction_related_of(blob),
                 extract_fatalities(blob), <<"official_wv511">>, <<"official">>,
                 JNull, notes)]

\* An outer loop that does not test the County field of a block.  Not what
\* the code does; OutOfScopeCountyDropped must tell the two apart.
RECURSIVE Wv511FromAnyCounty(_, _)
Wv511FromAnyCounty(lines, i) ==
    IF i > Len(lines) THEN <<>>
    ELSE IF ~LineStartsWith(lines[i], "I-79") THEN Wv511FromAnyCounty(lines, i + 1)
    ELSE (IF Wv511Block(lines, i).description # <<>>
             /\ ~Contains(Lower(Wv511Block(lines, i).description), <<"i-79">>)
            THEN <<>> ELSE <<Wv511Block(lines, i).incident>>)
         \o Wv511FromAnyCounty(lines, Wv511Block(lines, i).next)

\* An outer loop that does not test the Description field of a block.  Not
\* what the code does; DescriptionDecides must tell the two apart.
RECURSIVE Wv511FromAnyDescription(_, _)
Wv511FromAnyDescription(lines, i) ==
    IF i > Len(lines) THEN <<>>
    ELSE IF ~LineStartsWith(lines[i], "I-79") THEN Wv511FromAnyDescription(lines, i + 1)
    ELSE (IF Lower(Wv511Block(lines, i).county) \in NORTH_CENTRAL_COUNTIES
            THEN <<Wv511Block(lines, i).incident>> ELSE <<>>)
         \o Wv511FromAnyDescription(lines, Wv511Block(lines, i).next)

\* The outer while loop from i on: the incidents appended.
RECURSIVE Wv511From(_, _)
Wv511From(lines, i) ==
    IF i > Len(lines) THEN <<>>
    ELSE IF ~LineStartsWith(lines[i], "I-79") THEN Wv511From(lines, i + 1)
    ELSE LET b == Wv511Block(lines, i) IN
         (IF b.emit THEN <<b.incident>> ELSE <<>>) \o Wv511From(lines, b.next)

parse_wv511_i79_incidents(lines) == Wv511From(lines, 1)

\* The labels of the field lines of a block.
FieldLabels == {"Last Updated:", "County:", "Description:", "Comments:"}

\* An inner loop that stops at a header of the corridor only.  Not what the
\* code does; FieldsStayInBlock must tell the two apart.
ProbeKindCorridorOnly(probe) ==
    IF \E label \in FieldLabels : LineStartsWith(probe, label)
      THEN CHOOSE label \in FieldLabels : LineStartsWith(probe, label)
    ELSE IF LineStartsWith(probe, "I-79") THEN "break"
    ELSE "other"

\* The branch of the inner loop's if/elif chain a probe line takes: the
\* label of the field it sets, "break", or "other" for a line that is passed
\* over.
ProbeKind(probe) ==
    IF \E label \in FieldLabels : LineStartsWith(probe, label)
      THEN CHOOSE label \in FieldLabels : LineStartsWith(probe, label)
    ELSE IF LineStartsWith(probe, "I-") /\ ~LineStartsWith(probe, "I-79") THEN "break"
    ELSE IF LineStartsWith(probe, "I-79") THEN "break"
    ELSE "other"

\* An outer loop that resumes behind the line that ended the block.  Not what
\* the code does; ScanConsumesOnce must tell the two apart.
ResumeBehind(i, j) == j + 1

\* i = max(i + 1, j)
ResumeAt(i, j) == IF i + 1 >= j THEN i + 1 ELSE j

\* The tests that discard a block, on its fields.
BlockEmits(county, description) ==
    /\ Lower(county) \in NORTH_CENTRAL_COUNTIES
    /\ ~(description # <<>> /\ ~Contains(Lower(description), <<"i-79">>))

\* The incident appended for a block with the header line and the fields.
BlockIncident(line, last_updated, county, description, notes) ==
    LET stripped == Strip(DropMarker(line))
        event_title == IF stripped = <<>> THEN <<"Traffic", SP, "Event">> ELSE stripped
        blob == Strip(<<"I-79", SP>> \o event_title \o <<SP>> \o description
                      \o <<SP>> \o notes)
        loc == infer_location(Join2(county, blob))
        title == Strip(<<"I-79", SP>> \o event_title)
        \* the SHA-1 digest of blob, written as blob
        pseudo_url == WV511_DELAY_URL \o <<"#i79-">> \o blob
    IN Incident(incident_id(pseudo_url, title), title, WV511_DELAY_URL,
                <<"wv511.org">>, parse_wv511_date(last_updated).val, description,
                IF county # <<>> THEN county ELSE loc.location_text,
                loc.lat, loc.lon, construction_related_of(blob),
                extract_fatalities(blob), <<"official_wv511">>, <<"official">>,
                JNull, notes)

\* ----------------------------------------------------------------- adapters
\* An adapter's outcome is [exc, out]: the exception that leaves it ("" for
\* none) and what it returns, <<>> for None and <<incident>> otherwise.

Yield(out) == [exc |-> "", out |-> out]

Throw(e) == [exc |-> e, out |-> <<>>]

HISTORICAL_YEARS == 6

\* content[:350] and content[:420]: the contents of the model are shorter.
Cut(content) == content

\* A WordPress post after clean_text: [id, date_gmt, link, title, excerpt,
\* content], the three texts being the "rendered" members.
to_wboy_incident(post) ==
    LET title == post.title
        link == post.link
        excerpt == post.excerpt
        content == post.content
        blob == Strip(title \o <<SP>> \o excerpt \o <<SP>> \o content)
        title_excerpt_blob == Strip(Join2(title, excerpt))
        fatality_blob == Strip(title \o <<SP>> \o excerpt \o <<SP>> \o Cut(content))
        title_lower == Lower(title)
        loc == infer_location(blob)
        published_at == parse_wp_date(post.date_gmt)
    IN
    IF title = <<>> \/ link = <<>> THEN Yield(<<>>)
    ELSE IF \E term \in NON_EVENT_TITLE_TERMS : Contains(title_lower, term) THEN Yield(<<>>)
    ELSE IF ~likely_relevant(title_excerpt_blob) THEN Yield(<<>>)
    ELSE IF ~is_north_central_context(blob) THEN Yield(<<>>)
    ELSE IF published_at.exc # "" THEN Throw(published_at.exc)
    ELSE Yield(<< Incident(incident_id(link, title), title, link, <<"wboy.com">>,
                     published_at.val,
                     IF excerpt # <<>> THEN excerpt ELSE Cut(content),
                     loc.location_text, loc.lat, loc.lon,
                     construction_related_of(blob), extract_fatalities(fatality_blob),
                     <<"news_archive">>, <<"unverified">>, JNull, <<>>) >>)

\* An article page as fetch and extract_meta_content see it: fetch_ok is
\* FALSE when the fetch raises; og_title, og_description and published_time
\* are the meta contents ("" when absent), title_tag the <title> text.
to_wdtv_incident(article_url, sitemap_lastmod, page) ==
    LET published_raw ==
            IF page.published_time # <<>> THEN page.published_time ELSE sitemap_lastmod
        title == IF page.og_title # <<>> THEN page.og_title ELSE page.title_tag
        summary == page.og_description
        blob == title \o <<SP>> \o summary \o <<SP>> \o article_url
        loc == infer_location(blob)
        published_at == parse_iso_date(published_raw)
    IN
    IF ~page.fetch_ok THEN Yield(<<>>)
    ELSE IF title = <<>> THEN Yield(<<>>)
    ELSE IF ~likely_relevant(blob) THEN Yield(<<>>)
    ELSE IF ~is_north_central_context(blob) THEN Yield(<<>>)
    ELSE IF published_at.exc # "" THEN Throw(published_at.exc)
    ELSE Yield(<< Incident(incident_id(article_url, title), title, article_url,
                     <<"wdtv.com">>, published_at.val, summary,
                     loc.location_text, loc.lat, loc.lon,
                     construction_related_of(blob),
                     extract_fatalities(Join2(title, summary)),
                     <<"news_archive_wdtv">>, <<"unverified">>, JNull, <<>>) >>)

\* dt.datetime.now(utc) - dt.timedelta(days=365 * HISTORICAL_YEARS), for a
\* clock reading now = [ord, hour, mins].
Cutoff(now) == [ord |-> now.ord - 365 * HISTORICAL_YEARS, hour |-> now.hour, mins |-> now.mins]

\* when < cutoff for two UTC instants
Before(when, cutoff) ==
    \/ when.ord < cutoff.ord
    \/ when.ord = cutoff.ord /\ when.hour < cutoff.hour
    \/ when.ord = cutoff.ord /\ when.hour = cutoff.hour
         /\ when.mins = ":00:00" /\ cutoff.mins = ":30:00"

\* The lookback filter of fetch_wdtv_historical_incidents: TRUE when the
\* incident is appended.
WithinLookback(incident, now) ==
    IF incident.published_at # <<>>
      THEN LET when == FromIsoFormat(ReplaceZ(incident.published_at)) IN
           ~(when.ok /\ Before(when, Cutoff(now)))
      ELSE TRUE

\* One sitemap entry through the loop body of fetch_wdtv_historical_incidents:
\* the incidents it appends, or the exception that leaves the loop.
WdtvEntry(article_url, lastmod, page, now) ==
    LET incident == to_wdtv_incident(article_url, lastmod, page) IN
    IF ~\E term \in WDTV_URL_HINT_TERMS : Contains(Lower(article_url), term) THEN Yield(<<>>)
    ELSE IF incident.exc # "" THEN incident
    ELSE IF incident.out = <<>> THEN Yield(<<>>)
    ELSE IF ~WithinLookback(incident.out[1], now) THEN Yield(<<>>)
    ELSE incident

\* ---------------------------------------------------------- override engine
\* by_id, a dict in insertion order, is the sequence of its values: the ids
\* of its members are distinct.

IndexOfId(by_id, id) ==
    IF \E i \in 1..Len(by_id) : by_id[i].id = id
      THEN CHOOSE i \in 1..Len(by_id) : by_id[i].id = id
      ELSE 0

\* by_id.setdefault(incident.id, incident) in the place of the assignment: a
\* present key keeps its value.  Not what the code does; ManualReplaces must
\* tell the two apart.
DictSetDefault(by_id, incident) ==
    IF IndexOfId(by_id, incident.id) = 0 THEN Append(by_id, incident) ELSE by_id

\* by_id[incident.id] = incident: a present key keeps its place and takes the
\* new value, a new key is added at the end.
DictSet(by_id, incident) ==
    LET i == IndexOfId(by_id, incident.id) IN
    IF i = 0 THEN Append(by_id, incident) ELSE [by_id EXCEPT ![i] = incident]

\* A by_id that keeps every incident of the list, ids repeated or not.  Not
\* what the code does; NoDuplicateIds must tell the two apart.
DictOfListKeepAll(incidents) == incidents

\* {incident.id: incident for incident in incidents}
RECURSIVE DictOfList(_)
DictOfList(incidents) ==
    IF incidents = <<>> THEN <<>>
    ELSE DictSet(DictOfList(SubSeq(incidents, 1, Len(incidents) - 1)),
                 incidents[Len(incidents)])

\* A patch loop that assigns patch.get(key, default) for every key instead of
\* testing `key in patch`: absent keys fall back to defaults.  Not what the
\* code does; PatchFrame must tell the two apart.
ApplyPatchResets(incident, patch) ==
    [exc |-> "",
     incident |->
        [incident EXCEPT
            !.construction_related = PyBool(Get(patch, "construction_related", JBool(FALSE))),
            !.suspected_fatalities = PyInt(Get(patch, "suspected_fatalities", JInt(0))).val,
            !.verified_fatalities =
                IF Get(patch, "verified_fatalities", JNull) = JNull THEN JNull
                ELSE JInt(PyInt(patch["verified_fatalities"]).val),
            !.verification_status = PyStr(Get(patch, "verification_status", JStr(<<>>))),
            !.notes = PyStr(Get(patch, "notes", JStr(<<>>)))]]

\* The body of the incident_overrides loop for one incident and one patch (a
\* JSON object as a function from its keys): the incident as the assignments
\* leave it, and the exception that ends them.
ApplyPatch(incident, patch) ==
    LET a == IF "construction_related" \in DOMAIN patch
               THEN [incident EXCEPT !.construction_related =
                                         PyBool(patch["construction_related"])]
               ELSE incident
        sf == PyInt(Get(patch, "suspected_fatalities", JNull))
        b == IF "suspected_fatalities" \in DOMAIN patch
               THEN [a EXCEPT !.suspected_fatalities = sf.val]
               ELSE a
        vf == PyInt(Get(patch, "verified_fatalities", JNull))
        c == IF "verified_fatalities" \in DOMAIN patch
               THEN [b EXCEPT !.verified_fatalities =
                        IF patch["verified_fatalities"] = JNull THEN JNull
                        ELSE JInt(vf.val)]
               ELSE b
        d == IF "verification_status" \in DOMAIN patch
               THEN [c EXCEPT !.verification_status = PyStr(patch["verification_status"])]
               ELSE c
        e == IF "notes" \in DOMAIN patch
               THEN [d EXCEPT !.notes = PyStr(patch["notes"])]
               ELSE d
    IN
    IF "suspected_fatalities" \in DOMAIN patch /\ sf.exc # ""
      THEN [exc |-> sf.exc, incident |-> a]
    ELSE IF /\ "verified_fatalities" \in DOMAIN patch
            /\ patch["verified_fatalities"] # JNull
            /\ vf.exc # ""
      THEN [exc |-> vf.exc, incident |-> b]
    ELSE [exc |-> "", incident |-> e]

\* The body of the manual_incidents loop for one record that is a JSON
\* object: [exc, out], out being <<>> when the record is skipped and the new
\* incident otherwise.
ManualIncident(raw) ==
    LET title == Strip(PyStr(Get(raw, "title", JStr(<<>>))))
        stripped_url == Strip(PyStr(Get(raw, "url", JStr(<<"manual://local">>))))
        url == IF stripped_url = <<>> THEN <<"manual://local">> ELSE stripped_url
        text_blob == Join2(title, PyStr(Get(raw, "summary", JStr(<<>>))))
        loc == infer_location(text_blob)
        sf == PyInt(Get(raw, "suspected_fatalities", JInt(0)))
    IN
    IF title = <<>> THEN Yield(<<>>)
    ELSE IF sf.exc # "" THEN Throw(sf.exc)
    ELSE Yield(<< Incident(
             incident_id(url, title),
             title,
             url,
             PyStr(Get(raw, "source", JStr(<<"manual">>))),
             PyStr(Get(raw, "published_at", JStr(<<>>))),
             PyStr(Get(raw, "summary", JStr(<<>>))),
             PyStr(Get(raw, "location_text", JStr(loc.location_text))),
             Get(raw, "lat", loc.lat),
             Get(raw, "lon", loc.lon),
             text_to_bool(PyStr(Get(raw, "construction_related", JStr(<<"false">>)))),
             sf.val,
             PyStr(Get(raw, "source_type", JStr(<<"manual">>))),
             PyStr(Get(raw, "verification_status", JStr(<<"verified">>))),
             Get(raw, "verified_fatalities", JNull),
             PyStr(Get(raw, "notes", JStr(<<>>)))) >>)

\* The incident_overrides loop over the (key, patch) items of the payload, in
\* their order: a key that by_id does not hold is skipped, an exception of a
\* patch leaves the loop.  [exc, out], out being by_id after the loop.
RECURSIVE PatchItems(_, _)
PatchItems(by_id, items) ==
    IF items = <<>> THEN Yield(by_id)
    ELSE IF IndexOfId(by_id, items[1][1]) = 0 THEN PatchItems(by_id, Tail(items))
    ELSE IF ApplyPatch(by_id[IndexOfId(by_id, items[1][1])], items[1][2]).exc # ""
      THEN Throw(ApplyPatch(by_id[IndexOfId(by_id, items[1][1])], items[1][2]).exc)
    ELSE PatchItems([by_id EXCEPT ![IndexOfId(by_id, items[1][1])] =
                        ApplyPatch(by_id[IndexOfId(by_id, items[1][1])], items[1][2]).incident],
                    Tail(items))

\* The manual_incidents loop over the records of the payload, in their order.
RECURSIVE ManualItems(_, _)
ManualItems(by_id, raws) ==
    IF raws = <<>> THEN Yield(by_id)
    ELSE IF ManualIncident(raws[1]).exc # "" THEN Throw(ManualIncident(raws[1]).exc)
    ELSE IF ManualIncident(raws[1]).out = <<>> THEN ManualItems(by_id, Tail(raws))
    ELSE ManualItems(DictSet(by_id, ManualIncident(raws[1]).out[1]), Tail(raws))

\* An apply_manual_overrides that inserts the manual incidents before it
\* patches.  Not what the code does; UnknownPatchIgnored must tell the two
\* apart.
apply_manual_overrides_manual_first(incidents, payload) ==
    IF ManualItems(DictOfList(incidents), payload[2]).exc # ""
      THEN ManualItems(DictOfList(incidents), payload[2])
    ELSE PatchItems(ManualItems(DictOfList(incidents), payload[2]).out, payload[1])

\* apply_manual_overrides for a payload <<items, raws>>: the (key, patch)
\* items of incident_overrides and the records of manual_incidents, all JSON
\* objects.  [exc, out], out being list(by_id.values()).
apply_manual_overrides(incidents, payload) ==
    IF PatchItems(DictOfList(incidents), payload[1]).exc # ""
      THEN PatchItems(DictOfList(incidents), payload[1])
    ELSE ManualItems(PatchItems(DictOfList(incidents), payload[1]).out, payload[2])

effective_fatalities(incident) ==
    IF IsInt(incident.verified_fatalities)
      THEN incident.verified_fatalities.n
      ELSE incident.suspected_fatalities

\* ------------------------------------------------------- sort and summary

\* The atoms a published_at may hold, in the order Python compares them as
\* strings (by code point).
KeyAtomOrder ==
    <<
      "+00:00", "00", "0001-01-01", "0001-01-02", "01", "02", "03", "04",
      "05", "06", "07", "08", "09", "10", "11", "12", "13", "14", "15", "16",
      "17", "18", "19", "20", "2019-06-14", "2019-06-15", "2019-06-16",
      "2025-06-14", "2025-06-15", "2025-06-16", "21", "22", "23", ":00:00",
      ":30:00", "None", "T", "Z", "yesterday" >>

AtomRank(a) == CHOOSE r \in 1..Len(KeyAtomOrder) : KeyAtomOrder[r] = a

\* a < b for two strings: the first differing atom decides, and a proper
\* prefix is smaller.
RECURSIVE StrLess(_, _)
StrLess(a, b) ==
    IF b = <<>> THEN FALSE
    ELSE IF a = <<>> THEN TRUE
    ELSE IF Head(a) = Head(b) THEN StrLess(Tail(a), Tail(b))
    ELSE AtomRank(Head(a)) < AtomRank(Head(b))

\* list.sort(key=lambda x: x.published_at or "", reverse=True): a stable sort,
\* so x goes behind every element whose key is not smaller than its own.
RECURSIVE InsertDesc(_, _)
InsertDesc(sorted, x) ==
    IF sorted = <<>> THEN <<x>>
    ELSE IF StrLess(Head(sorted).published_at, x.published_at)
      THEN <<x>> \o sorted
    ELSE <<Head(sorted)>> \o InsertDesc(Tail(sorted), x)

\* A build_dataset that returns the collection in the order of by_id, without
\* sorting it.  Not what the code does; SortedByPublishedAt must tell the two
\* apart.
SortKeep(incidents) == incidents

RECURSIVE SortDesc(_)
SortDesc(incidents) ==
    IF incidents = <<>> THEN <<>>
    ELSE InsertDesc(SortDesc(SubSeq(incidents, 1, Len(incidents) - 1)),
                    incidents[Len(incidents)])

RECURSIVE SumOver(_, _)
SumOver(f, n) == IF n = 0 THEN 0 ELSE f[n] + SumOver(f, n - 1)

\* The summary of build_dataset (generated_at, the clock reading, left out).
Summary(incidents) ==
    LET n == Len(incidents) IN
    [suspected_fatalities |-> SumOver([i \in 1..n |-> effective_fatalities(incidents[i])], n),
     incident_count |-> n,
     construction_related_count |->
        Cardinality({i \in 1..n : incidents[i].construction_related}),
     official_source_count |->
        Cardinality({i \in 1..n : incidents[i].source_type = <<"official_wv511">>}),
     verified_count |-> Cardinality({i \in 1..n :
            incidents[i].verification_status \in { <<"official">>, <<"verified">> }})]

\* ------------------------------------------------------------------ inputs
\* What the sources and manual_overrides.json may hold in the model.

\* The inputs (feed items, delay pages, sitemap entries, posts, override
\* entries) one run of build_dataset consumes at most.
MaxInputs == 3

U_WBOY == <<"https://www.wboy.com/", "i-79", "-crash">>

U_WDTV == <<"https://www.wdtv.com/", "i-79", "-crash">>

U_PLAIN == <<"https://www.wdtv.com/", "weather">>

T_CRASH == <<"I-79", SP, "crash">>

T_TIPS == <<"I-79", SP, "crash", SP, "safety", SP, "tips">>

T_NEWS == <<"weather">>

D_FAIR == <<"near", SP, "Fairmont">>

D_DEAD == <<"2", SP, "dead", SP, "in", SP, "Marion", SP, "County">>

RFC_RECENT == <<"Sun, 15 Jun 2025", SP, "22", ":30:00", SP, "-0400">>

ISO_RECENT == <<"2025-06-15", "T", "12", ":30:00", "Z">>

ISO_OLD == <<"2019-06-15", "T", "12", ":30:00", "Z">>

ISO_YEAR1 == <<"0001-01-01", "T", "02", ":30:00", "+05:00">>

NOT_A_DATE == <<"yesterday">>

\* The clock of the run: dt.datetime.now(utc).
Now == [ord |-> 739418, hour |-> 12, mins |-> ":00:00"]

\* The rows iter_feed_items yields.
FeedItems ==
    { [title |-> T_CRASH, source |-> <<"wboy.com">>, description |-> D_FAIR,
       link |-> U_WBOY, pub_date |-> RFC_RECENT],
      [title |-> T_CRASH, source |-> <<"wboy.com">>, description |-> D_DEAD,
       link |-> U_WBOY, pub_date |-> <<>>],
      [title |-> T_CRASH, source |-> <<"wdtv.com">>, description |-> D_DEAD,
       link |-> U_WDTV, pub_date |-> RFC_RECENT],
      [title |-> T_TIPS, source |-> <<"wdtv.com">>, description |-> D_FAIR,
       link |-> U_WDTV, pub_date |-> RFC_RECENT],
      [title |-> T_NEWS, source |-> <<"wboy.com">>, description |-> D_FAIR,
       link |-> U_WBOY, pub_date |-> RFC_RECENT],
      [title |-> T_CRASH, source |-> <<"unknown">>, description |-> D_FAIR,
       link |-> <<>>, pub_date |-> RFC_RECENT],
      [title |-> T_CRASH, source |-> <<"wboy.com">>, description |-> D_FAIR,
       link |-> U_WBOY, pub_date |-> NOT_A_DATE] }

\* The line lists html_to_lines makes of the delay page.
WV_HEAD == <<"I-79", SP, "Possible", SP, "Delay">>

WV_DESC == <<"Description:", SP, "I-79", SP, "crash">>

Wv511Pages ==
    { << WV_HEAD, <<"Last Updated:", SP, "06/15/2025", SP, "10", ":30:00", SP, "AM">>,
         <<"County:", SP, "Marion", SP, "County">>, WV_DESC,
         <<"Comments:", SP, "Use", SP, "caution">> >>,
      << WV_HEAD, <<"County:", SP, "Marion", SP, "County">>, WV_DESC,
         WV_HEAD, <<"County:", SP, "Harrison", SP, "County">>, WV_DESC >>,
      << WV_HEAD, <<"County:", SP, "Ohio", SP, "County">>, WV_DESC,
         <<"I-77", SP, "Delay">>, <<"County:", SP, "Marion", SP, "County">> >>,
      << <<"I-79">>, <<"County:", SP, "Marion", SP, "County">>,
         <<"Description:", SP, "2", SP, "dead">> >>,
      << <<"Travel", SP, "Delays">> >> }

\* The pages to_wdtv_incident fetches.
NoPage ==
    [published_time |-> <<>>, og_title |-> <<>>, title_tag |-> <<>>,
     og_description |-> <<>>, fetch_ok |-> FALSE]

WdtvPages ==
    { [published_time |-> p, og_title |-> T_CRASH, title_tag |-> T_CRASH,
       og_description |-> D_FAIR, fetch_ok |-> TRUE] :
        p \in {ISO_RECENT, ISO_OLD, ISO_YEAR1, NOT_A_DATE} }
    \cup
    { [published_time |-> <<>>, og_title |-> <<>>, title_tag |-> T_CRASH,
       og_description |-> D_DEAD, fetch_ok |-> TRUE],
      [published_time |-> ISO_RECENT, og_title |-> T_TIPS, title_tag |-> T_TIPS,
       og_description |-> D_FAIR, fetch_ok |-> TRUE],
      NoPage }

\* The (article_url, lastmod) pairs iter_wdtv_sitemap_entries yields.
SitemapEntries ==
    { [article_url |-> U_WDTV, lastmod |-> <<>>],
      [article_url |-> U_WDTV, lastmod |-> ISO_RECENT],
      [article_url |-> U_PLAIN, lastmod |-> ISO_RECENT] }

\* The rows iter_wboy_historical_posts yields.
WboyPosts ==
    { [title |-> T_CRASH, id |-> 101, content |-> <<>>,
       link |-> U_WBOY, excerpt |-> D_DEAD, date_gmt |-> <<"2025-06-15", "T", "12", ":30:00">>],
      [title |-> T_CRASH, id |-> 102, content |-> <<>>,
       link |-> U_WBOY, excerpt |-> D_FAIR, date_gmt |-> <<>>],
      [title |-> T_TIPS, id |-> 102, content |-> <<>>,
       link |-> U_WBOY, excerpt |-> D_FAIR, date_gmt |-> <<"2025-06-15", "T", "12", ":30:00">>],
      [title |-> T_CRASH, id |-> 101, content |-> <<>>,
       link |-> U_WBOY, excerpt |-> D_FAIR, date_gmt |-> ISO_YEAR1],
      [title |-> T_NEWS, id |-> 102, content |-> <<>>,
       link |-> U_WBOY, excerpt |-> D_FAIR, date_gmt |-> ISO_RECENT] }

\* A key that a JSON object does not have.
Absent == [s |-> <<>>, n |-> 0, k |-> "absent"]

\* The JSON object with the members of r that are not Absent.
Present(r) == [key \in {x \in DOMAIN r : r[x] # Absent} |-> r[key]]

\* The patch objects of incident_overrides: the empty one, each recognised
\* key (and one the loop does not know) alone, and two with several keys.
PatchOf(cr, sf, vf, vs, nt, tt) ==
    Present([title |-> tt, construction_related |-> cr,
             suspected_fatalities |-> sf, verification_status |-> vs,
             verified_fatalities |-> vf, notes |-> nt])

Patches ==
    { PatchOf(Absent, Absent, Absent, Absent, Absent, Absent),
      PatchOf(JStr(<<"false">>), Absent, Absent, Absent, Absent, Absent),
      PatchOf(Absent, JInt(3), Absent, Absent, Absent, Absent),
      PatchOf(Absent, JInt(-1), Absent, Absent, Absent, Absent),
      PatchOf(Absent, JStr(<<"many">>), Absent, Absent, Absent, Absent),
      PatchOf(Absent, Absent, JNull, Absent, Absent, Absent),
      PatchOf(Absent, Absent, JInt(2), Absent, Absent, Absent),
      PatchOf(Absent, Absent, JObj, Absent, Absent, Absent),
      PatchOf(Absent, Absent, Absent, JStr(<<"verified">>), Absent, Absent),
      PatchOf(Absent, Absent, Absent, Absent, JInt(2), Absent),
      PatchOf(Absent, Absent, Absent, Absent, Absent, JStr(T_NEWS)),
      PatchOf(JBool(TRUE), Absent, JNull, Absent, JStr(<<"Confirmed">>), Absent),
      PatchOf(Absent, JInt(1), JInt(2), JStr(<<"verified">>), Absent, Absent) }

\* A manual record: title and url, and at most one more member.
ManualExtras ==
    { <<"source", JStr(<<"desk">>)>>,
      <<"published_at", JStr(ISO_RECENT)>>,
      <<"summary", JStr(D_DEAD)>>,
      <<"summary", JNull>>,
      <<"location_text", JStr(<<"Exit", SP, "132">>)>>,
      <<"lat", JFloat(395000)>>,
      <<"lat", JNull>>,
      <<"lon", JFloat(-801000)>>,
      <<"construction_related", JStr(<<"Yes">>)>>,
      <<"suspected_fatalities", JInt(-1)>>,
      <<"suspected_fatalities", JFloat(25000)>>,
      <<"suspected_fatalities", JStr(<<"many">>)>>,
      <<"suspected_fatalities", JNull>>,
      <<"source_type", JStr(<<"news">>)>>,
      <<"verification_status", JStr(<<"unverified">>)>>,
      <<"verified_fatalities", JInt(2)>>,
      <<"verified_fatalities", JFloat(25000)>>,
      <<"notes", JStr(<<"Confirmed">>)>> }

T_MARION == <<"Crash", SP, "in", SP, "Marion", SP, "County">>

ManualRaws ==
    { Present([url |-> u, title |-> t]) :
        t \in {JStr(T_CRASH), JStr(<<SP>>)}, u \in {JStr(U_WBOY), Absent} }
    \cup
    { Present([url |-> JStr(U_WBOY), title |-> JStr(T_CRASH)]) @@ (e[1] :> e[2]) :
        e \in ManualExtras }
    \cup
    { Present([url |-> JStr(U_WBOY), title |-> JStr(T_MARION)]),
      Present([url |-> JStr(U_WBOY), title |-> JStr(T_MARION)]) @@ ("lat" :> JNull),
      Present([url |-> JStr(U_WBOY), title |-> JStr(T_CRASH)])
        @@ ("lat" :> JFloat(395000)) @@ ("lon" :> JFloat(-801000))
        @@ ("suspected_fatalities" :> JInt(1)) @@ ("verified_fatalities" :> JInt(1)) }

\* ------------------------------------------------------------ build_dataset
\* One run of build_dataset, a step per fetched unit, source row or override
\* entry.
\*   pc             where the run is: "feeds", "wv511", "wdtv", "wboy" (the
\*                  four sources), "load", "patch", "manual" (the overrides),
\*                  "done" (returned) or "raised" (left by an exception)
\*   feed           the index into RSS_FEEDS of the feed being read
\*   incidents      the list `incidents`
\*   seen           the set `seen`
\*   seen_urls      iter_wdtv_sitemap_entries' seen_urls
\*   seen_post_ids  iter_wboy_historical_posts' seen_post_ids
\*   by_id          apply_manual_overrides' dict
\*   patched        the keys of incident_overrides already visited
\*   dataset        what build_dataset returns
\*   exc            the exception that left build_dataset
\*   first          history: the first candidate produced for each id
\*   step           the step taken last, with the override entry it read
\*   budget         the inputs the run may still consume
\*   call           one call of a date parser: [fn, raw, out]
VARIABLES pc, feed, incidents, seen, seen_urls, seen_post_ids, by_id, patched,
          dataset, exc, first, step, budget, call

vars == <<pc, feed, incidents, seen, seen_urls, seen_post_ids, by_id, patched,
          dataset, exc, first, step, budget, call>>

RSS_FEEDS ==
    << <<"https://www.wboy.com/feed/">>, <<"https://www.wdtv.com/rss">>,
       <<"https://wvmetronews.com/feed/">> >>

Step(name) == [id |-> <<>>, name |-> name, arg |-> <<>>, hit |-> FALSE]

NoDataset == [summary |-> Summary(<<>>), incidents |-> <<>>]

Ids(list) == {list[i].id : i \in 1..Len(list)}

\* The history of first candidates with one more candidate.
Seen1(hist, incident) == IF incident.id \in Ids(hist) THEN hist ELSE Append(hist, incident)

RECURSIVE SeenAll(_, _)
SeenAll(hist, list) ==
    IF list = <<>> THEN hist ELSE SeenAll(Seen1(hist, Head(list)), Tail(list))

\* No parser has been called.
NoCall == [raw |-> <<>>, out |-> Returned(<<>>), fn |-> ""]

\* build_dataset is entered.
InitRun ==
    /\ pc = "feeds"
    /\ feed = 1
    /\ incidents = <<>>
    /\ seen = {}
    /\ seen_urls = {}
    /\ seen_post_ids = {}
    /\ by_id = <<>>
    /\ patched = {}
    /\ dataset = NoDataset
    /\ exc = ""
    /\ first = <<>>
    /\ step = Step("init")
    /\ budget = MaxInputs

Init == InitRun /\ call = NoCall

\* An exception leaves build_dataset.
Raise(e, name) ==
    /\ pc' = "raised"
    /\ exc' = e
    /\ step' = Step(name)
    /\ UNCHANGED <<call, feed, incidents, seen, seen_urls, seen_post_ids, by_id, patched,
                   dataset, first, budget>>

\* The for loop over RSS_FEEDS goes to the next feed, or ends.
NextFeed ==
    IF feed < Len(RSS_FEEDS)
      THEN feed' = feed + 1 /\ pc' = pc
      ELSE feed' = feed /\ pc' = "wv511"

\* fetch(feed) raises: the feed is skipped.
FeedFetchFails ==
    /\ pc = "feeds"
    /\ step.name # "feed_item"
    /\ NextFeed
    /\ step' = Step("feed_fetch_failed")
    /\ UNCHANGED <<call, incidents, seen, seen_urls, seen_post_ids, by_id, patched, dataset,
                   exc, first, budget>>

\* fetch(feed) returns a document that is not well-formed XML: ET.fromstring
\* raises ParseError in iter_feed_items, which nothing catches.
FeedMalformed ==
    /\ pc = "feeds"
    /\ step.name # "feed_item"
    /\ Raise("ParseError", "feed_malformed")

\* The candidate the loop body builds for a feed row that passes its checks.
FeedIncident(item) ==
    LET blob == Join2(item.title, item.description)
        loc == infer_location(blob)
    IN
    Incident(incident_id(item.link, item.title), item.title, item.link, item.source,
             parse_date(item.pub_date).val, item.description, loc.location_text,
             loc.lat, loc.lon, construction_related_of(blob),
             extract_fatalities(blob), <<"news">>, <<"unverified">>, JNull, <<>>)

\* What the loop body computes for a feed row: whether the row passes the
\* relevance and link checks, its id, the exception parse_date raises, and
\* the candidate.
FeedRow(item) ==
    [exc |-> parse_date(item.pub_date).exc,
     incident |-> FeedIncident(item),
     candidate |-> likely_relevant(Join2(item.title, item.description)) /\ item.link # <<>>,
     iid |-> incident_id(item.link, item.title)]

\* One row of the feed through the loop body, row being FeedRow of it.
FeedItem(row) ==
    /\ pc = "feeds"
    /\ budget > 0
    /\ IF row.candidate /\ row.iid \notin seen /\ row.exc # ""
         THEN Raise(row.exc, "feed_item_raised")
         ELSE /\ incidents' = IF row.candidate /\ row.iid \notin seen
                                THEN Append(incidents, row.incident)
                                ELSE incidents
              /\ seen' = IF row.candidate THEN seen \cup {row.iid} ELSE seen
              /\ first' = IF row.candidate THEN Seen1(first, row.incident) ELSE first
              /\ step' = Step("feed_item")
              /\ budget' = budget - 1
              /\ UNCHANGED <<call, pc, feed, seen_urls, seen_post_ids, by_id, patched,
                             dataset, exc>>

\* The feed has no more rows.
FeedEnd ==
    /\ pc = "feeds"
    /\ NextFeed
    /\ step' = Step("feed_end")
    /\ UNCHANGED <<call, incidents, seen, seen_urls, seen_post_ids, by_id, patched, dataset,
                   exc, first, budget>>

\* incidents.extend(fetch_wv511_incidents()) when the fetch raises: [].
Wv511FetchFails ==
    /\ pc = "wv511"
    /\ pc' = "wdtv"
    /\ step' = Step("wv511_fetch_failed")
    /\ UNCHANGED <<call, feed, incidents, seen, seen_urls, seen_post_ids, by_id, patched,
                   dataset, exc, first, budget>>

\* incidents.extend(fetch_wv511_incidents()) for a fetched page, parsed
\* being what parse_wv511_i79_incidents makes of its lines.
Wv511Page(parsed) ==
    /\ pc = "wv511"
    /\ budget > 0
    /\ incidents' = incidents \o parsed
    /\ first' = SeenAll(first, parsed)
    /\ pc' = "wdtv"
    /\ step' = Step("wv511_page")
    /\ budget' = budget - 1
    /\ UNCHANGED <<call, feed, seen, seen_urls, seen_post_ids, by_id, patched, dataset, exc>>

\* The loop body of build_dataset for what an adapter returned.
Merge(out) ==
    /\ incidents' = IF out # <<>> /\ out[1].id \notin seen
                      THEN Append(incidents, out[1])
                      ELSE incidents
    /\ seen' = IF out # <<>> THEN seen \cup {out[1].id} ELSE seen
    /\ first' = IF out # <<>> THEN Seen1(first, out[1]) ELSE first

\* One sitemap entry through fetch_wdtv_historical_incidents and the loop of
\* build_dataset over its result.
\* r is WdtvEntry of the entry and its page.
WdtvArticle(entry, r) ==
    /\ pc = "wdtv"
    /\ budget > 0
    /\ entry.article_url \notin seen_urls
    /\ IF r.exc # ""
         THEN Raise(r.exc, "wdtv_raised")
         ELSE /\ Merge(r.out)
              /\ seen_urls' = seen_urls \cup {entry.article_url}
              /\ step' = Step("wdtv_article")
              /\ budget' = budget - 1
              /\ UNCHANGED <<call, pc, feed, seen_post_ids, by_id, patched, dataset, exc>>

WdtvEnd ==
    /\ pc = "wdtv"
    /\ pc' = "wboy"
    /\ step' = Step("wdtv_end")
    /\ UNCHANGED <<call, feed, incidents, seen, seen_urls, seen_post_ids, by_id, patched,
                   dataset, exc, first, budget>>

\* One post of iter_wboy_historical_posts through the loop of build_dataset.
\* r is to_wboy_incident(post).
WboyPost(post, r) ==
    /\ pc = "wboy"
    /\ budget > 0
    /\ post.id \notin seen_post_ids
    /\ IF r.exc # ""
         THEN Raise(r.exc, "wboy_raised")
         ELSE /\ Merge(r.out)
              /\ seen_post_ids' = seen_post_ids \cup {post.id}
              /\ step' = Step("wboy_post")
              /\ budget' = budget - 1
              /\ UNCHANGED <<call, pc, feed, seen_urls, by_id, patched, dataset, exc>>

WboyEnd ==
    /\ pc = "wboy"
    /\ pc' = "load"
    /\ step' = Step("wboy_end")
    /\ UNCHANGED <<call, feed, incidents, seen, seen_urls, seen_post_ids, by_id, patched,
                   dataset, exc, first, budget>>

\* by_id = {incident.id: incident for incident in incidents}, and
\* payload.get("incident_overrides", {}) is a JSON object.
LoadOverrides ==
    /\ pc = "load"
    /\ by_id' = DictOfList(incidents)
    /\ pc' = "patch"
    /\ step' = Step("load")
    /\ UNCHANGED <<call, feed, incidents, seen, seen_urls, seen_post_ids, patched, dataset,
                   exc, first, budget>>

\* The incident_overrides member is a JSON array: it has no items().
OverridesNotObject ==
    /\ pc = "load"
    /\ Raise("AttributeError", "overrides_not_object")

\* The id no adapter produces in the model: the one a manual record without
\* a url gets.
MANUAL_ID == incident_id(<<"manual://local">>, T_CRASH)

\* The keys incident_overrides may hold: every id a feed row, a delay page or
\* a manual record of the model can give, found in by_id or not.
OverrideKeys ==
    {FeedRow(item).iid : item \in FeedItems}
    \cup UNION {Ids(parse_wv511_i79_incidents(lines)) : lines \in Wv511Pages}
    \cup {MANUAL_ID}

\* One (key, patch) item of incident_overrides whose patch is a JSON object.
PatchEntry(key, patch) ==
    LET i == IndexOfId(by_id, key)
        r == ApplyPatch(by_id[i], patch)
    IN
    /\ pc = "patch"
    /\ budget > 0
    /\ key \notin patched
    /\ IF i > 0 /\ r.exc # ""
         THEN Raise(r.exc, "patch_raised")
         ELSE /\ by_id' = IF i > 0 THEN [by_id EXCEPT ![i] = r.incident] ELSE by_id
              /\ patched' = patched \cup {key}
              /\ step' = [id |-> key, name |-> "patch", arg |-> patch, hit |-> i > 0]
              /\ budget' = budget - 1
              /\ UNCHANGED <<call, pc, feed, incidents, seen, seen_urls, seen_post_ids,
                             dataset, exc, first>>

\* One item of incident_overrides whose patch is not a JSON object: skipped.
PatchNotObject(key) ==
    /\ pc = "patch"
    /\ budget > 0
    /\ key \notin patched
    /\ patched' = patched \cup {key}
    /\ step' = Step("patch_not_object")
    /\ budget' = budget - 1
    /\ UNCHANGED <<call, pc, feed, incidents, seen, seen_urls, seen_post_ids, by_id,
                   dataset, exc, first>>

\* incident_overrides has no more items, and payload.get("manual_incidents",
\* []) is a JSON array.
PatchesEnd ==
    /\ pc = "patch"
    /\ pc' = "manual"
    /\ step' = Step("patches_end")
    /\ UNCHANGED <<call, feed, incidents, seen, seen_urls, seen_post_ids, by_id, patched,
                   dataset, exc, first, budget>>

\* The manual_incidents member is null: the for loop cannot iterate it.
ManualNotIterable ==
    /\ pc = "patch"
    /\ Raise("TypeError", "manual_not_iterable")

\* One member of manual_incidents that is a JSON object, r being
\* ManualIncident(raw).
ManualEntry(raw, r) ==
    /\ pc = "manual"
    /\ budget > 0
    /\ IF r.exc # ""
         THEN Raise(r.exc, "manual_raised")
         ELSE /\ by_id' = IF r.out # <<>> THEN DictSet(by_id, r.out[1]) ELSE by_id
              /\ step' = [id |-> IF r.out # <<>> THEN r.out[1].id ELSE <<>>,
                          name |-> "manual",
                          arg |-> raw,
                          hit |-> r.out # <<>> /\ r.out[1].id \in Ids(by_id)]
              /\ budget' = budget - 1
              /\ UNCHANGED <<call, pc, feed, incidents, seen, seen_urls, seen_post_ids,
                             patched, dataset, exc, first>>

\* One member of manual_incidents that is not a JSON object: skipped.
ManualNotObject ==
    /\ pc = "manual"
    /\ budget > 0
    /\ step' = Step("manual_not_object")
    /\ budget' = budget - 1
    /\ UNCHANGED <<call, pc, feed, incidents, seen, seen_urls, seen_post_ids, by_id,
                   patched, dataset, exc, first>>

\* apply_manual_overrides returns list(by_id.values()); build_dataset sorts
\* it, summarises it and returns.
Finish ==
    /\ pc = "manual"
    /\ dataset' = [summary |-> Summary(SortDesc(by_id)), incidents |-> SortDesc(by_id)]
    /\ pc' = "done"
    /\ step' = Step("finish")
    /\ UNCHANGED <<call, feed, incidents, seen, seen_urls, seen_post_ids, by_id, patched,
                   exc, first, budget>>

Next ==
    \/ FeedFetchFails
    \/ FeedMalformed
    \/ \E item \in FeedItems : FeedItem(FeedRow(item))
    \/ FeedEnd
    \/ Wv511FetchFails
    \/ \E lines \in Wv511Pages : Wv511Page(parse_wv511_i79_incidents(lines))
    \/ \E entry \in SitemapEntries, page \in WdtvPages :
          WdtvArticle(entry, WdtvEntry(entry.article_url, entry.lastmod, page, Now))
    \/ WdtvEnd
    \/ \E post \in WboyPosts : WboyPost(post, to_wboy_incident(post))
    \/ WboyEnd
    \/ LoadOverrides
    \/ OverridesNotObject
    \/ \E key \in OverrideKeys, patch \in Patches : PatchEntry(key, patch)
    \/ \E key \in OverrideKeys : PatchNotObject(key)
    \/ PatchesEnd
    \/ ManualNotIterable
    \/ \E raw \in ManualRaws : ManualEntry(raw, ManualIncident(raw))
    \/ ManualNotObject
    \/ Finish

Spec == Init /\ [][Next]_vars

\* ------------------------------------------------------------ date parsers
\* One call of one of the four date parsers on one raw string.

\* The variables of the run of build_dataset.
run == <<pc, feed, incidents, seen, seen_urls, seen_post_ids, by_id, patched,
         dataset, exc, first, step, budget>>

\* What follows the day in an ISO 8601 string.
DateTails ==
    { <<>>,
      <<"T", "12", ":30:00">>,
      <<"T", "02", ":30:00", "Z">>,
      <<"T", "02", ":30:00", "+05:00">>,
      <<SP, "22", ":00:00", "-04:00">>,
      <<"T", "yesterday">> }

\* The raw strings given to the parsers: empty, not a date, RFC 2822, the
\* delay page's format and ISO 8601.
DateInputs ==
    { <<>>, NOT_A_DATE, RFC_RECENT,
      <<SP>> \o RFC_RECENT \o <<SP>>,
      <<"Sun, 15 Jun 2025", SP, "22", ":30:00">>,
      <<"Sat, 15 Jun 2019", SP, "02", ":00:00", SP, "+0500">>,
      <<"06/15/2025", SP, "10", ":30:00", SP, "AM">>,
      <<"06/15/2025", SP, "12", ":00:00", SP, "PM">>,
      <<"06/15/2019", SP, "12", ":30:00", SP, "AM">>,
      <<"06/15/2025", SP, "22", ":30:00", SP, "PM">>,
      <<SP, "06/15/2025", SP, "10", ":30:00", SP, "AM", SP>> }
    \cup { <<d>> \o t : d \in {"0001-01-01", "2019-06-15", "2025-06-15"}, t \in DateTails }

InitDates ==
    /\ InitRun
    /\ call \in {[raw |-> raw, out |-> Returned(<<>>), fn |-> ""] : raw \in DateInputs}

CallParseDate ==
    /\ call.fn = ""
    /\ call' = [raw |-> call.raw, out |-> parse_date(call.raw), fn |-> "parse_date"]
    /\ UNCHANGED run

CallParseWpDate ==
    /\ call.fn = ""
    /\ call' = [raw |-> call.raw, out |-> parse_wp_date(call.raw), fn |-> "parse_wp_date"]
    /\ UNCHANGED run

CallParseIsoDate ==
    /\ call.fn = ""
    /\ call' = [raw |-> call.raw, out |-> parse_iso_date(call.raw), fn |-> "parse_iso_date"]
    /\ UNCHANGED run

CallParseWv511Date ==
    /\ call.fn = ""
    /\ call' = [raw |-> call.raw, out |-> parse_wv511_date(call.raw),
                fn |-> "parse_wv511_date"]
    /\ UNCHANGED run

NextDates ==
    \/ CallParseDate
    \/ CallParseWpDate
    \/ CallParseIsoDate
    \/ CallParseWv511Date

SpecDates == InitDates /\ [][NextDates]_vars

\* ------------------------------------------------- calls of the heuristics
\* One call of a pure function on an input: call.raw is <<kind, input ...>>,
\* call.out what the function returns.

\* The phrases a text is made of.
Phrases ==
    { <<"15", SP, "dead">>, <<"killed", SP, "3">>, <<"3">>, <<"dead">>, <<"two">>,
      <<"people", SP, "killed">>, <<"fatalities">>, <<"I-79">>, <<"crash">>,
      <<"Marion", SP, "County">>, <<"harrison", SP, "county">>, <<"fairmont">>,
      <<"interstate", SP, "79">>, <<"deadline">> }

\* The phrases one text holds at most.
MaxPhrases == 3

\* The texts of n phrases or fewer (and at least one), single spaces between.
RECURSIVE TextsUpTo(_)
TextsUpTo(n) ==
    IF n = 1 THEN Phrases
    ELSE TextsUpTo(n - 1) \cup
         {t \o <<SP>> \o p : t \in TextsUpTo(n - 1), p \in Phrases}

Texts == {<<>>} \cup TextsUpTo(MaxPhrases)

\* The urls and titles given to incident_id, written character by character.
IdStrings ==
    { <<"a">>, <<"b">>, <<"a", "|">>, <<"|", "b">>, <<"a", "|", "b">>, <<"b", "|", "a">> }

\* A block of the delay page is <<header line, county, description>>; county
\* and description are <<>> when the block has no such line and <<value>>
\* when it has one.
Wv511Blocks ==
    { <<head, county, description>> :
        head \in { <<"I-79", SP, "Possible", SP, "Delay">>, <<"I-77", SP, "Delay">> },
        county \in { <<>>, << <<"Marion", SP, "County">> >>, << <<"Ohio", SP, "County">> >>,
                     << <<"Marion">> >> },
        description \in { <<>>, << <<>> >>, << <<"I-79", SP, "crash">> >>, << <<"crash">> >> } }

\* The line of a labelled field as html_to_lines leaves it.
FieldLine(label, field) ==
    IF field = <<>> THEN <<>>
    ELSE IF field[1] = <<>> THEN << <<label>> >>
    ELSE << <<label, SP>> \o field[1] >>

\* The lines of a block, and of a page of blocks.
BlockLines(block) ==
    <<block[1]>> \o FieldLine("County:", block[2]) \o FieldLine("Description:", block[3])

RECURSIVE PageLines(_)
PageLines(blocks) ==
    IF blocks = <<>> THEN <<>> ELSE BlockLines(Head(blocks)) \o PageLines(Tail(blocks))

\* The blocks one delay page holds at most.
MaxBlocks == 2

RECURSIVE PagesUpTo(_)
PagesUpTo(n) ==
    IF n = 0 THEN { <<>> }
    ELSE PagesUpTo(n - 1) \cup
         {page \o <<block>> : page \in PagesUpTo(n - 1), block \in Wv511Blocks}

\* The lists of adapter incidents given to apply_manual_overrides: two rows of
\* the feed with one id, and one row with another.
OverrideIncidents ==
    LET a == FeedIncident([title |-> T_CRASH, source |-> <<"wboy.com">>,
                           description |-> D_FAIR, link |-> U_WBOY, pub_date |-> RFC_RECENT])
        a2 == FeedIncident([title |-> T_CRASH, source |-> <<"wboy.com">>,
                            description |-> D_DEAD, link |-> U_WBOY, pub_date |-> <<>>])
        b == FeedIncident([title |-> T_CRASH, source |-> <<"wdtv.com">>,
                           description |-> D_DEAD, link |-> U_WDTV, pub_date |-> RFC_RECENT])
    IN { <<>>, <<a>>, <<b>>, <<a, b>>, <<b, a>>, <<a, a2>> }

\* The entries each list of the payload holds at most.
MaxEntries == 2

\* The (key, patch) items of incident_overrides: the keys are the id of the
\* feed incident and the id of a manual record without a url.
OverrideItems ==
    { <<key, patch>> :
        key \in {incident_id(U_WBOY, T_CRASH), MANUAL_ID},
        patch \in { PatchOf(Absent, JInt(3), Absent, Absent, Absent, Absent),
                    PatchOf(Absent, JStr(<<"many">>), Absent, Absent, Absent, Absent),
                    PatchOf(Absent, Absent, Absent, JStr(<<"verified">>), Absent, Absent),
                    PatchOf(JBool(TRUE), Absent, JNull, Absent, JStr(<<"Confirmed">>), Absent) } }

\* The records of manual_incidents.
OverrideRaws ==
    { Present([url |-> JStr(U_WBOY), title |-> JStr(T_CRASH)]),
      Present([url |-> Absent, title |-> JStr(T_CRASH)]),
      Present([url |-> Absent, title |-> JStr(<<SP>>)]),
      Present([url |-> JStr(U_WBOY), title |-> JStr(T_CRASH)])
        @@ ("suspected_fatalities" :> JInt(1)) @@ ("verified_fatalities" :> JInt(1)) }

\* The sequences of n elements of a set or fewer; an object has no key twice.
RECURSIVE ListsUpTo(_, _)
ListsUpTo(set, n) ==
    IF n = 0 THEN { <<>> }
    ELSE ListsUpTo(set, n - 1) \cup
         {list \o <<x>> : list \in ListsUpTo(set, n - 1), x \in set}

OverridePayloads ==
    { <<items, raws>> :
        items \in {l \in ListsUpTo(OverrideItems, MaxEntries) :
                      \A i, j \in 1..Len(l) : l[i][1] = l[j][1] => i = j},
        raws \in ListsUpTo(OverrideRaws, MaxEntries) }

PureInputs ==
    {<<"text", t>> : t \in Texts}
    \cup {<<"page", blocks>> : blocks \in PagesUpTo(MaxBlocks)}
    \cup {<<"overrides", list, payload>> :
            list \in OverrideIncidents, payload \in OverridePayloads}
    \cup {<<"ids", u1, t1, u2, t2>> : u1 \in IdStrings, t1 \in IdStrings,
                                      u2 \in IdStrings, t2 \in IdStrings}

InitPure ==
    /\ InitRun
    /\ call \in {[raw |-> raw, out |-> <<>>, fn |-> ""] : raw \in PureInputs}

CallExtractFatalities ==
    /\ call.fn = ""
    /\ call.raw[1] = "text"
    /\ call' = [raw |-> call.raw, out |-> extract_fatalities(call.raw[2]),
                fn |-> "extract_fatalities"]
    /\ UNCHANGED run

CallInferLocation ==
    /\ call.fn = ""
    /\ call.raw[1] = "text"
    /\ call' = [raw |-> call.raw, out |-> infer_location(call.raw[2]),
                fn |-> "infer_location"]
    /\ UNCHANGED run

CallLikelyRelevant ==
    /\ call.fn = ""
    /\ call.raw[1] = "text"
    /\ call' = [raw |-> call.raw, out |-> likely_relevant(call.raw[2]),
                fn |-> "likely_relevant"]
    /\ UNCHANGED run

\* incident_id on two (url, title) pairs.
CallIncidentId ==
    /\ call.fn = ""
    /\ call.raw[1] = "ids"
    /\ call' = [raw |-> call.raw,
                out |-> <<incident_id(call.raw[2], call.raw[3]),
                          incident_id(call.raw[4], call.raw[5])>>,
                fn |-> "incident_id"]
    /\ UNCHANGED run

\* parse_wv511_i79_incidents on the lines of a page of blocks.
CallParseWv511 ==
    /\ call.fn = ""
    /\ call.raw[1] = "page"
    /\ call' = [raw |-> call.raw,
                out |-> parse_wv511_i79_incidents(PageLines(call.raw[2])),
                fn |-> "parse_wv511_i79_incidents"]
    /\ UNCHANGED run

\* apply_manual_overrides on a list of incidents, and once more on what it
\* returned, with the same payload: out is <<once, twice>>, and twice is
\* once when the first call raised.
CallApplyOverrides(once) ==
    /\ call.fn = ""
    /\ call.raw[1] = "overrides"
    /\ call' = [raw |-> call.raw,
                out |-> <<once, IF once.exc # "" THEN once
                                 ELSE apply_manual_overrides(once.out, call.raw[3])>>,
                fn |-> "apply_manual_overrides"]
    /\ UNCHANGED run

NextPure ==
    \/ CallExtractFatalities
    \/ CallInferLocation
    \/ CallLikelyRelevant
    \/ CallIncidentId
    \/ CallParseWv511
    \/ /\ call.fn = ""
       /\ call.raw[1] = "overrides"
       /\ \E once \in {apply_manual_overrides(call.raw[2], call.raw[3])} :
             CallApplyOverrides(once)

SpecPure == InitPure /\ [][NextPure]_vars

\* The calls of apply_manual_overrides alone.
InitOverrides ==
    /\ InitRun
    /\ call \in {[raw |-> <<"overrides", list, payload>>, out |-> <<>>, fn |-> ""] :
                   list \in OverrideIncidents, payload \in OverridePayloads}

NextOverrides ==
    /\ call.fn = ""
    /\ \E once \in {apply_manual_overrides(call.raw[2], call.raw[3])} :
          CallApplyOverrides(once)

SpecOverrides == InitOverrides /\ [][NextOverrides]_vars

\* --------------------------------------------- the scan of the delay page
\* parse_wv511_i79_incidents step by step.  call.raw is <<"scan", lines>>,
\* call.fn is the place of the scan ("outer": at the test of the outer while,
\* "inner": at the test of the inner while, "parse_wv511_i79_incidents": it
\* has returned) and call.out holds its locals:
\*   i, j        the indexes of the two loops (from 1)
\*   fields      last_updated, county, description and notes, by label
\*   incidents   the incidents appended, each written as <<i, fields>>: the
\*               header index and the fields its Incident is made of
\*   blocks      history: <<i, j>> of every block, header index and end
\*   assigned    history: <<i, j>> for every field line j a block i was set from
\*   turns       history: the values i had at the outer test

\* The lines of the delay page, as html_to_lines leaves them.
ScanLineSet ==
    { <<"I-79", SP, "Possible", SP, "Delay">>, <<"I-77", SP, "Delay">>,
      <<"Last Updated:", SP, "06/15/2025", SP, "10", ":30:00", SP, "AM">>,
      <<"County:", SP, "Marion", SP, "County">>,
      <<"Description:", SP, "I-79", SP, "crash">>,
      <<"Comments:", SP, "Use", SP, "caution">>,
      <<"Travel", SP, "Delays">> }

\* The lines one page holds at most.
MaxLines == 4

NoFields == [label \in FieldLabels |-> <<>>]

InitScan ==
    /\ InitRun
    /\ call \in {[raw |-> <<"scan", lines>>,
                  out |-> [i |-> 1, j |-> 1, incidents |-> <<>>, blocks |-> <<>>,
                           fields |-> NoFields, assigned |-> {}, turns |-> <<>>],
                  fn |-> "outer"] : lines \in ListsUpTo(ScanLineSet, MaxLines)}

\* The scan moves to the locals out and the place fn.
ScanTo(out, fn) ==
    /\ call' = [raw |-> call.raw, out |-> out, fn |-> fn]
    /\ UNCHANGED run

\* The outer test holds and the line is no header of the corridor.
ScanSkip ==
    /\ call.fn = "outer"
    /\ call.out.i <= Len(call.raw[2])
    /\ ~LineStartsWith(call.raw[2][call.out.i], "I-79")
    /\ ScanTo([call.out EXCEPT !.i = @ + 1, !.turns = Append(@, call.out.i)], "outer")

\* The outer test holds and the line is a header of the corridor: the fields
\* are reset and the inner loop starts behind it.
ScanHeader ==
    /\ call.fn = "outer"
    /\ call.out.i <= Len(call.raw[2])
    /\ LineStartsWith(call.raw[2][call.out.i], "I-79")
    /\ ScanTo([call.out EXCEPT !.j = call.out.i + 1, !.fields = NoFields,
                               !.turns = Append(@, call.out.i)], "inner")

\* The inner test holds and the probe is a field line.
ScanField ==
    /\ call.fn = "inner"
    /\ call.out.j <= Len(call.raw[2])
    /\ ProbeKind(call.raw[2][call.out.j]) \in FieldLabels
    /\ ScanTo([call.out EXCEPT
                  !.fields[ProbeKind(call.raw[2][call.out.j])] =
                      AfterColon(call.raw[2][call.out.j]),
                  !.assigned = @ \cup {<<call.out.i, call.out.j>>},
                  !.j = @ + 1], "inner")

\* The inner test holds and the probe takes no branch.
ScanPass ==
    /\ call.fn = "inner"
    /\ call.out.j <= Len(call.raw[2])
    /\ ProbeKind(call.raw[2][call.out.j]) = "other"
    /\ ScanTo([call.out EXCEPT !.j = @ + 1], "inner")

\* The inner loop is left, by break or by its test: the rest of the outer
\* iteration, which discards the block or appends its incident.
ScanBlockEnd ==
    /\ call.fn = "inner"
    /\ IF call.out.j > Len(call.raw[2]) THEN TRUE
       ELSE ProbeKind(call.raw[2][call.out.j]) = "break"
    /\ ScanTo([call.out EXCEPT
                  !.incidents =
                      IF BlockEmits(call.out.fields["County:"], call.out.fields["Description:"])
                        THEN Append(@, <<call.out.i, call.out.fields>>)
                        ELSE @,
                  !.blocks = Append(@, <<call.out.i, call.out.j>>),
                  !.i = ResumeAt(call.out.i, call.out.j)], "outer")

\* The Incident objects of the list the scan has appended to.
ScanIncidents(lines, appended) ==
    [n \in 1..Len(appended) |->
        BlockIncident(lines[appended[n][1]], appended[n][2]["Last Updated:"],
                      appended[n][2]["County:"], appended[n][2]["Description:"],
                      appended[n][2]["Comments:"])]

\* The outer test fails: return incidents.
ScanReturn ==
    /\ call.fn = "outer"
    /\ call.out.i > Len(call.raw[2])
    /\ ScanTo(call.out, "parse_wv511_i79_incidents")

NextScan ==
    \/ ScanSkip
    \/ ScanHeader
    \/ ScanField
    \/ ScanPass
    \/ ScanBlockEnd
    \/ ScanReturn

\* The scan is the only thread of the call: a step that can be taken is taken.
SpecScan == InitScan /\ [][NextScan]_vars /\ WF_vars(NextScan)

\* ------------------------------------------------------------------ claims

\* C1: for an id that more than one candidate produces, the record the
\* collection holds before the overrides is the one of the earliest candidate:
\* when apply_manual_overrides has built by_id, by_id is the sequence of the
\* first candidates of the ids.
FirstWriterWins == step.name = "load" => by_id = first

\* The entry of a dict for an id.
Entry(dict, id) == dict[IndexOfId(dict, id)]

\* The defaults of a manual record for the members it does not give.
ManualDefaults(raw, new) ==
    LET loc == infer_location(Join2(new.title, PyStr(Get(raw, "summary", JStr(<<>>))))) IN
    /\ "source" \notin DOMAIN raw => new.source = <<"manual">>
    /\ "published_at" \notin DOMAIN raw => new.published_at = <<>>
    /\ "summary" \notin DOMAIN raw => new.summary = <<>>
    /\ "location_text" \notin DOMAIN raw => new.location_text = loc.location_text
    /\ "lat" \notin DOMAIN raw => new.lat = loc.lat
    /\ "lon" \notin DOMAIN raw => new.lon = loc.lon
    /\ "construction_related" \notin DOMAIN raw => new.construction_related = FALSE
    /\ "suspected_fatalities" \notin DOMAIN raw => new.suspected_fatalities = 0
    /\ "source_type" \notin DOMAIN raw => new.source_type = <<"manual">>
    /\ "verification_status" \notin DOMAIN raw => new.verification_status = <<"verified">>
    /\ "verified_fatalities" \notin DOMAIN raw => new.verified_fatalities = JNull
    /\ "notes" \notin DOMAIN raw => new.notes = <<>>

\* The members a manual record gives, as the entry holds them.
ManualGiven(raw, new) ==
    /\ new.title = Strip(PyStr(raw["title"]))
    /\ "url" \in DOMAIN raw => new.url = Strip(PyStr(raw["url"]))
    /\ "source" \in DOMAIN raw => new.source = PyStr(raw["source"])
    /\ "published_at" \in DOMAIN raw => new.published_at = PyStr(raw["published_at"])
    /\ "summary" \in DOMAIN raw => new.summary = PyStr(raw["summary"])
    /\ "location_text" \in DOMAIN raw => new.location_text = PyStr(raw["location_text"])
    /\ "lat" \in DOMAIN raw => new.lat = raw["lat"]
    /\ "lon" \in DOMAIN raw => new.lon = raw["lon"]
    /\ "construction_related" \in DOMAIN raw =>
          new.construction_related = text_to_bool(PyStr(raw["construction_related"]))
    /\ "suspected_fatalities" \in DOMAIN raw =>
          new.suspected_fatalities = PyInt(raw["suspected_fatalities"]).val
    /\ "source_type" \in DOMAIN raw => new.source_type = PyStr(raw["source_type"])
    /\ "verification_status" \in DOMAIN raw =>
          new.verification_status = PyStr(raw["verification_status"])
    /\ "verified_fatalities" \in DOMAIN raw =>
          new.verified_fatalities = raw["verified_fatalities"]
    /\ "notes" \in DOMAIN raw => new.notes = PyStr(raw["notes"])

\* C2: a manual incident whose id is the id of an adapter-sourced incident
\* replaces that record: after the step the entry for the id holds, in every
\* field, what the manual record gives or the default of the manual record,
\* and the other entries are as they were.
ManualReplaces ==
    [][ (step'.name = "manual" /\ step'.hit /\ step'.id \in Ids(incidents)) =>
          /\ Len(by_id') = Len(by_id)
          /\ \A j \in 1..Len(by_id) : by_id[j].id # step'.id => by_id'[j] = by_id[j]
          /\ Entry(by_id', step'.id).id = step'.id
          /\ ManualGiven(step'.arg, Entry(by_id', step'.id))
          /\ ManualDefaults(step'.arg, Entry(by_id', step'.id)) ]_vars

\* C2, its case: a manual record has just taken the id of an incident an
\* adapter produced, and the record it replaced differed from it.
ManualReplacesWitness ==
    /\ step.name = "manual"
    /\ step.hit
    /\ \E i \in 1..Len(incidents) :
          incidents[i].id = step.id /\ incidents[i] # Entry(by_id, step.id)

\* C3: a patch leaves every field whose key it does not hold, and every other
\* incident, as they were, and verified_fatalities = null in it makes the
\* incident's verified_fatalities null.
PatchFrame ==
    [][ (step'.name = "patch" /\ step'.hit) =>
          LET i == IndexOfId(by_id, step'.id)
              patch == step'.arg
          IN
          /\ Len(by_id') = Len(by_id)
          /\ \A j \in 1..Len(by_id) : j # i => by_id'[j] = by_id[j]
          /\ \A f \in DOMAIN by_id[i] : f \notin DOMAIN patch => by_id'[i][f] = by_id[i][f]
          /\ ("verified_fatalities" \in DOMAIN patch /\ patch["verified_fatalities"] = JNull)
                => by_id'[i].verified_fatalities = JNull ]_vars

\* C3, its case: a patch with verified_fatalities = null and without
\* suspected_fatalities has been applied to an incident that suspects
\* fatalities, next to another incident.
PatchFrameWitness ==
    /\ step.name = "patch"
    /\ step.hit
    /\ Len(by_id) >= 2
    /\ "verified_fatalities" \in DOMAIN step.arg
    /\ step.arg["verified_fatalities"] = JNull
    /\ "suspected_fatalities" \notin DOMAIN step.arg
    /\ Entry(by_id, step.id).suspected_fatalities > 0
    /\ Entry(by_id, step.id).verified_fatalities = JNull

\* C4: every incident of the returned dataset has lat and lon both null or
\* both set.
LatLonTogether ==
    pc = "done" =>
        \A i \in 1..Len(dataset.incidents) :
            (dataset.incidents[i].lat = JNull) <=> (dataset.incidents[i].lon = JNull)

\* The effective count as the claim words it, in units of 1/10000:
\* verified_fatalities whenever it is not null, suspected_fatalities otherwise.
EffectiveIfNonNull(incident) ==
    IF incident.verified_fatalities # JNull
      THEN IF incident.verified_fatalities.k = "float"
             THEN incident.verified_fatalities.n
             ELSE 10000 * incident.verified_fatalities.n
      ELSE 10000 * incident.suspected_fatalities

\* C5: the summary's fatality total is the sum over the incidents of
\* verified_fatalities where it is not null and of suspected_fatalities
\* elsewhere.
SummaryTotalIsEffectiveSum ==
    pc = "done" =>
        10000 * dataset.summary.suspected_fatalities =
            SumOver([i \in 1..Len(dataset.incidents) |->
                        EffectiveIfNonNull(dataset.incidents[i])],
                    Len(dataset.incidents))

\* C6: every incident of the returned dataset has a suspected_fatalities that
\* is a non-negative integer.
SuspectedNonNegative ==
    pc = "done" =>
        \A i \in 1..Len(dataset.incidents) :
            dataset.incidents[i].suspected_fatalities \in Nat

\* C7: apply_manual_overrides is never left by an exception, whatever the
\* types of the payload's content.
OverridesNeverAbort ==
    ~(pc = "raised" /\ step.name \in {"overrides_not_object", "patch_raised",
                                       "manual_not_iterable", "manual_raised"})

\* C8: the failure of one feed, a fetch that raises or a document that is not
\* well-formed XML, never leaves build_dataset as an exception.
FeedFailureIsSkipped ==
    ~(pc = "raised" /\ step.name \in {"feed_fetch_failed", "feed_malformed"})

\* C9: a date parser returns, and never raises: for an input it cannot parse
\* it returns the empty string.
DateParsersReturn == call.fn # "" => call.out.exc = ""

\* C10: the lookback filter of the archived sitemap admits no candidate whose
\* published_at is empty: no incident of that source in the collection has an
\* empty published_at.
EmptyTimestampNotAdmitted ==
    \A i \in 1..Len(incidents) :
        incidents[i].source_type = <<"news_archive_wdtv">> => incidents[i].published_at # <<>>

\* C11: the returned collection is in descending order of published_at, and
\* every incident with an empty published_at stands behind every incident with
\* a non-empty one.
SortedByPublishedAt ==
    pc = "done" =>
        \A i, j \in 1..Len(dataset.incidents) :
            i < j =>
                /\ ~StrLess(dataset.incidents[i].published_at,
                            dataset.incidents[j].published_at)
                /\ dataset.incidents[i].published_at = <<>>
                      => dataset.incidents[j].published_at = <<>>

\* C11, its case: build_dataset has returned three incidents, which by_id held
\* with an undated one first and the latest one last.
SortedByPublishedAtWitness ==
    /\ pc = "done"
    /\ Len(by_id) = 3
    /\ by_id[1].published_at = <<>>
    /\ by_id[2].published_at # <<>>
    /\ StrLess(by_id[2].published_at, by_id[3].published_at)

\* The text of a call has one of the fatal-clue phrases.
HasFatalClue(lowered) == \E clue \in fatal_clues : Contains(lowered, clue)

\* The numeric patterns that match a text.
NumericMatched(lowered) == {p \in 1..4 : NumericMatch(lowered, p).pos > 0}

\* What the spelled-number patterns give, and 1 when neither matches.
SpelledOrOne(lowered) ==
    LET dead == Leftmost({i \in 1..Len(lowered) : WordDeadAt(lowered, i)})
        killed == Leftmost({i \in 1..Len(lowered) : WordKilledAt(lowered, i)})
    IN IF dead > 0 THEN SPELLED_NUMBERS[lowered[dead]]
       ELSE IF killed > 0 THEN SPELLED_NUMBERS[lowered[killed]]
       ELSE 1

\* C14: extract_fatalities returns 0 for a text without a fatal-clue phrase
\* and a count in 1..10 for a text with one; when every numeric count of the
\* text is above 10 and no spelled number matches, it returns 1.
FatalitiesInRange ==
    call.fn = "extract_fatalities" =>
        LET lowered == Lower(call.raw[2]) IN
        /\ ~HasFatalClue(lowered) => call.out = 0
        /\ HasFatalClue(lowered) => call.out \in 1..10
        /\ ( /\ HasFatalClue(lowered)
             /\ \A p \in NumericMatched(lowered) : NumericMatch(lowered, p).value > 10
             /\ SpelledOrOne(lowered) = 1 ) => call.out = 1

\* C14, its case: a text whose one numeric count is 15 has been given 1.
FatalitiesInRangeWitness ==
    /\ call.fn = "extract_fatalities"
    /\ NumericMatched(Lower(call.raw[2])) = {2}
    /\ NumericMatch(Lower(call.raw[2]), 2).value = 15
    /\ call.out = 1

\* C15: the first numeric pattern that matches, in the listed order, decides:
\* its count is returned when it is in 1..10, and otherwise the result is
\* that of the spelled-number patterns or 1, never the count of a later
\* numeric pattern.
FirstNumericPatternWins ==
    (call.fn = "extract_fatalities" /\ HasFatalClue(Lower(call.raw[2]))
        /\ NumericMatched(Lower(call.raw[2])) # {}) =>
        LET lowered == Lower(call.raw[2])
            p == CHOOSE q \in NumericMatched(lowered) :
                    \A r \in NumericMatched(lowered) : q <= r
            value == NumericMatch(lowered, p).value
        IN call.out = IF value \in 1..10 THEN value ELSE SpelledOrOne(lowered)

\* The county names that occur in a text at word boundaries.
CountiesIn(lowered) == {c \in NORTH_CENTRAL_COUNTIES : WordSearch(lowered, c) > 0}

\* C16: infer_location returns a county whenever a county name occurs in the
\* text, whatever cities occur too; of several counties the one that occurs
\* earliest; and 'Unspecified stretch' without coordinates when no place of
\* the table occurs.
LocationPrefersCounty ==
    call.fn = "infer_location" =>
        LET lowered == Lower(call.raw[2]) IN
        /\ CountiesIn(lowered) # {} =>
              \E c \in CountiesIn(lowered) :
                  /\ \A d \in CountiesIn(lowered) :
                        WordSearch(lowered, c) <= WordSearch(lowered, d)
                  /\ call.out.location_text = Title(c)
                  /\ call.out.lat = JFloat(LOCATION_HINTS[HintOf(c)].lat)
                  /\ call.out.lon = JFloat(LOCATION_HINTS[HintOf(c)].lon)
        /\ (\A k \in 1..Len(LOCATION_HINTS) : ~Contains(lowered, LOCATION_HINTS[k].place)) =>
              /\ call.out.location_text = <<"Unspecified", SP, "stretch">>
              /\ call.out.lat = JNull
              /\ call.out.lon = JNull

\* C16, its case: a text names a city, then Harrison County, then Marion
\* County, and is resolved to Harrison County.
LocationPrefersCountyWitness ==
    /\ call.fn = "infer_location"
    /\ call.raw[2] = <<"fairmont", SP, "harrison", SP, "county", SP, "Marion", SP, "County">>
    /\ call.out.location_text = <<"Harrison", SP, "County">>

\* C18: likely_relevant is true exactly when the lower-cased text contains one
\* of the three corridor forms and an incident term; without a corridor form
\* it is false.
RelevantIffCorridorAndTerm ==
    call.fn = "likely_relevant" =>
        LET lowered == Lower(call.raw[2])
            corridor == \E form \in { <<"i-79">>, <<"interstate", SP, "79">>, <<"i", SP, "79">> } :
                            Contains(lowered, form)
            incident == \E term \in INCIDENT_TERMS : Contains(lowered, term)
        IN /\ call.out = (corridor /\ incident)
           /\ ~corridor => call.out = FALSE

\* C18, its case: a text with an incident term and no corridor form has been
\* classified, and is not relevant.
RelevantIffCorridorAndTermWitness ==
    /\ call.fn = "likely_relevant"
    /\ call.raw[2] = <<"crash", SP, "fairmont">>
    /\ call.out = FALSE

\* C17: no incident that an adapter (feed, archived search, archived sitemap)
\* put in the collection has a title that contains a phrase of
\* NON_EVENT_TITLE_TERMS.
NoDenylistedTitle ==
    \A i \in 1..Len(incidents) :
        incidents[i].source_type \in { <<"news">>, <<"news_archive">>, <<"news_archive_wdtv">> } =>
            ~\E term \in NON_EVENT_TITLE_TERMS : Contains(Lower(incidents[i].title), term)

\* C19: incident_id depends on the pair (url, title) only: equal pairs have
\* equal ids, and two pairs that differ in exactly one of url and title have
\* different ids.
IdFollowsArguments ==
    call.fn = "incident_id" =>
        /\ (call.raw[2] = call.raw[4] /\ call.raw[3] = call.raw[5])
              => call.out[1] = call.out[2]
        /\ (call.raw[2] # call.raw[4] /\ call.raw[3] = call.raw[5])
              => call.out[1] # call.out[2]
        /\ (call.raw[2] = call.raw[4] /\ call.raw[3] # call.raw[5])
              => call.out[1] # call.out[2]

\* C19, its case: two pairs with one url and the titles "a|b" and "b" have
\* been given different ids.
IdFollowsArgumentsWitness ==
    /\ call.fn = "incident_id"
    /\ call.raw[2] = call.raw[4]
    /\ call.raw[3] = <<"a", "|", "b">>
    /\ call.raw[5] = <<"b">>
    /\ call.out[1] # call.out[2]

\* The value of a block's field: "" when the block has no such line.
FieldValue(field) == IF field = <<>> THEN <<>> ELSE field[1]

\* A block of the corridor whose County, lower-cased, is one of the three.
CountyInScope(block) ==
    /\ block[1][1] = "I-79"
    /\ Lower(FieldValue(block[2])) \in
          { <<"monongalia", SP, "county">>, <<"marion", SP, "county">>,
            <<"harrison", SP, "county">> }

\* Such a block whose Description is empty or names the corridor.
BlockAccepted(block) ==
    /\ CountyInScope(block)
    /\ \/ FieldValue(block[3]) = <<>>
       \/ Contains(Lower(FieldValue(block[3])), <<"i-79">>)

\* C12: parse_wv511_i79_incidents emits nothing for a block whose County is
\* not one of the three counties (or is missing), whatever its Description:
\* there are no more incidents than blocks with such a County, each incident
\* bears one of the three counties, and each is official_wv511 / official.
OutOfScopeCountyDropped ==
    call.fn = "parse_wv511_i79_incidents" =>
        /\ Len(call.out) <= Len(SelectSeq(call.raw[2], CountyInScope))
        /\ \A k \in 1..Len(call.out) :
              /\ Lower(call.out[k].location_text) \in
                    { <<"monongalia", SP, "county">>, <<"marion", SP, "county">>,
                      <<"harrison", SP, "county">> }
              /\ call.out[k].source_type = <<"official_wv511">>
              /\ call.out[k].verification_status = <<"official">>

\* C12, its case: a page whose first block is in Ohio County with a
\* Description that names the corridor, and whose second block is in Marion
\* County, has given one incident.
OutOfScopeCountyDroppedWitness ==
    /\ call.fn = "parse_wv511_i79_incidents"
    /\ Len(call.raw[2]) = 2
    /\ call.raw[2][1] = << <<"I-79", SP, "Possible", SP, "Delay">>,
                           << <<"Ohio", SP, "County">> >>, << <<"I-79", SP, "crash">> >> >>
    /\ BlockAccepted(call.raw[2][2])
    /\ Len(call.out) = 1

\* C13: of the blocks with a County in scope, exactly those whose Description
\* is empty, missing or names the corridor give an incident, one each and in
\* the order of the page.
DescriptionDecides ==
    call.fn = "parse_wv511_i79_incidents" =>
        LET kept == SelectSeq(call.raw[2], BlockAccepted) IN
        /\ Len(call.out) = Len(kept)
        /\ \A k \in 1..Len(kept) :
              /\ call.out[k].summary = FieldValue(kept[k][3])
              /\ call.out[k].location_text = FieldValue(kept[k][2])

\* C13, its case: of two Marion County blocks, the first with a Description
\* that does not name the corridor and the second with an empty Description
\* line, the second alone has given an incident.
DescriptionDecidesWitness ==
    /\ call.fn = "parse_wv511_i79_incidents"
    /\ call.raw[2] = << << <<"I-79", SP, "Possible", SP, "Delay">>,
                           << <<"Marion", SP, "County">> >>, << <<"crash">> >> >>,
                        << <<"I-79", SP, "Possible", SP, "Delay">>,
                           << <<"Marion", SP, "County">> >>, << <<>> >> >> >>
    /\ Len(call.out) = 1
    /\ call.out[1].summary = <<>>

\* C20: applying the same payload to what apply_manual_overrides returned
\* gives the same collection again: same ids, same fields, same order.
OverridesIdempotent ==
    (call.fn = "apply_manual_overrides" /\ call.out[1].exc = "") =>
        call.out[2] = call.out[1]

\* C25: two different (url, title) pairs give different digest inputs, and so
\* different ids, also when a url or a title holds the separator '|'.
IdSeparatesPairs ==
    call.fn = "incident_id" =>
        (call.out[1] = call.out[2] =>
            call.raw[2] = call.raw[4] /\ call.raw[3] = call.raw[5])

\* C21: a block ends at the first line behind its header that starts with
\* "I-", or at the end of the input, and a field line is assigned only to
\* the block whose header is the last line before it that starts with "I-":
\* never across the header of another route, to the block before or to a
\* later one.
FieldsStayInBlock ==
    LET lines == call.raw[2] IN
    /\ \A a \in call.out.assigned :
          /\ a[1] < a[2]
          /\ LineStartsWith(lines[a[1]], "I-79")
          /\ \A m \in (a[1] + 1)..a[2] : ~LineStartsWith(lines[m], "I-")
    /\ \A n \in 1..Len(call.out.blocks) :
          LET b == call.out.blocks[n] IN
          /\ \A m \in (b[1] + 1)..(b[2] - 1) : ~LineStartsWith(lines[m], "I-")
          /\ b[2] = Len(lines) + 1 \/ LineStartsWith(lines[b[2]], "I-")

\* C21, its case: the scan has returned from a page where a header of
\* another route stands behind a block of the corridor and a field line
\* stands behind that header; the block was ended at the header and the field
\* line was assigned to no block.
FieldsStayInBlockWitness ==
    LET lines == call.raw[2] IN
    /\ call.fn = "parse_wv511_i79_incidents"
    /\ \E h, m, k \in 1..Len(lines) :
          /\ h < m /\ m < k
          /\ <<h, m>> \in {call.out.blocks[n] : n \in 1..Len(call.out.blocks)}
          /\ ~LineStartsWith(lines[m], "I-79")
          /\ ProbeKind(lines[k]) \in FieldLabels
          /\ \A a \in call.out.assigned : a[2] # k

\* The scan state of C22: the values of i at the outer test grow strictly,
\* every corridor header the scan has passed is the header of exactly one
\* block, the blocks share no line and the incidents are no more than the
\* corridor headers.
ScanOrderly ==
    LET lines == call.raw[2]
        out == call.out
        markers == {m \in 1..Len(lines) : LineStartsWith(lines[m], "I-79")}
    IN
    /\ \A a, b \in 1..Len(out.turns) : a < b => out.turns[a] < out.turns[b]
    /\ call.fn # "inner" =>
          \A m \in markers :
             m < out.i => Cardinality({n \in 1..Len(out.blocks) : out.blocks[n][1] = m}) = 1
    /\ \A n \in 1..Len(out.blocks) : out.blocks[n][1] \in markers
    /\ \A a, b \in 1..Len(out.blocks) : a < b => out.blocks[a][2] <= out.blocks[b][1]
    /\ Len(out.incidents) <= Cardinality(markers)

\* C22: parse_wv511_i79_incidents returns on every list of lines, and on the
\* way the outer index grows strictly, every line that starts with the
\* corridor marker heads exactly one block, no line is in two blocks and the
\* incidents emitted are at most the corridor marker lines.
ScanConsumesOnce ==
    /\ []ScanOrderly
    /\ <>(call.fn = "parse_wv511_i79_incidents"
            /\ call.out.i > Len(call.raw[2])
            /\ ScanIncidents(call.raw[2], call.out.incidents)
                  = parse_wv511_i79_incidents(call.raw[2]))

\* C22, its case: the scan has returned from a page with two blocks of the
\* corridor, the second header having ended the first block, and has emitted
\* an incident.
ScanConsumesOnceWitness ==
    /\ call.fn = "parse_wv511_i79_incidents"
    /\ Len(call.out.blocks) >= 2
    /\ call.out.blocks[1][2] = call.out.blocks[2][1]
    /\ call.out.incidents # <<>>

\* The items of a payload whose key is the id of one of the incidents.
RECURSIVE KnownItems(_, _)
KnownItems(given, items) ==
    IF items = <<>> THEN <<>>
    ELSE (IF \E n \in 1..Len(given) : given[n].id = items[1][1]
            THEN <<items[1]>> ELSE <<>>)
         \o KnownItems(given, Tail(items))

\* C23: a patch is applied only to an id the collection holds when the
\* patches are applied, before the manual incidents are inserted: the call
\* gives what it gives without the patches of other ids (no change, no
\* error), and a manual incident the payload inserts is the one its record
\* describes, whatever patch has its id.
UnknownPatchIgnored ==
    call.fn = "apply_manual_overrides" =>
        LET incidents_in == call.raw[2]
            items == call.raw[3][1]
            raws == call.raw[3][2]
        IN
        /\ call.out[1] =
              apply_manual_overrides(incidents_in, <<KnownItems(incidents_in, items), raws>>)
        /\ (KnownItems(incidents_in, items) = <<>> /\ raws = <<>>) =>
              call.out[1] = Yield(DictOfList(incidents_in))
        /\ call.out[1].exc = "" =>
              LET manual == ManualItems(<<>>, raws).out IN
              \A n \in 1..Len(manual) :
                 \E m \in 1..Len(call.out[1].out) : call.out[1].out[m] = manual[n]

\* C23, its case: the payload holds a patch that sets suspected_fatalities
\* to 3 under the id of a manual record of the same payload, which no
\* incident given has; the call has returned and the manual incident has the
\* count 0 of its record.
UnknownPatchIgnoredWitness ==
    /\ call.fn = "apply_manual_overrides"
    /\ call.raw[2] # <<>>
    /\ \E n \in 1..Len(call.raw[3][1]) :
          /\ call.raw[3][1][n][1] = MANUAL_ID
          /\ call.raw[3][1][n][2] = PatchOf(Absent, JInt(3), Absent, Absent, Absent, Absent)
    /\ call.out[1].exc = ""
    /\ \E m \in 1..Len(call.out[1].out) :
          /\ call.out[1].out[m].id = MANUAL_ID
          /\ call.out[1].out[m].suspected_fatalities = 0

\* C24: the collection build_dataset returns holds no two incidents with one
\* id, whatever the four sources and the overrides gave, and the summary's
\* incident_count is the number of its ids.
NoDuplicateIds ==
    pc = "done" =>
        /\ \A a, b \in 1..Len(dataset.incidents) :
              dataset.incidents[a].id = dataset.incidents[b].id => a = b
        /\ dataset.summary.incident_count = Cardinality(Ids(dataset.incidents))

\* C24, its case: build_dataset has returned after the sources gave it two
\* candidates with one id, which the delay page does with two blocks of one
\* text, and the collection holds that id once.
NoDuplicateIdsWitness ==
    /\ pc = "done"
    /\ \E a, b \in 1..Len(incidents) :
          /\ a # b
          /\ incidents[a].id = incidents[b].id
          /\ incidents[a].source_type = <<"official_wv511">>
          /\ incidents[a].id \in Ids(dataset.incidents)
    /\ dataset.summary.incident_count < Len(incidents)

====
